---- MODULE Spec2Model ----
(***************************************************************************)
(* Model of the alpaca-bot trading core.                                   *)
(*                                                                         *)
(* Part I   - the resilience layer of utils/error_handler.py (the          *)
(*            retry_on_error and circuit_breaker decorators and the        *)
(*            ErrorHandler), stacked as services/alpaca_client.py stacks   *)
(*            them on its guarded calls.  Specification GuardSpec.         *)
(* Part II  - the order / position lifecycle of                            *)
(*            strategies/scalping_strategy.py driven by the trading loop   *)
(*            of gui/main_window.py.  Specification Spec.                  *)
(***************************************************************************)
EXTENDS Integers, Sequences, FiniteSets, TLC

Min2(a, b) == IF a <= b THEN a ELSE b

(***************************************************************************)
(* PART I - RESILIENCE LAYER                                               *)
(***************************************************************************)

\* Decorator arguments used on the guarded client calls.
max_retries == 3
delay == 1
backoff_factor == 2
failure_threshold == 5
timeout == 300

\* ErrorHandler.__init__ configuration.
circuit_breaker_threshold == 5
circuit_breaker_timeout == 300
rate_limit_delay == 60

\* Cap on ErrorHandler.error_counts (the code lets it grow without limit).
MaxErrorCount == 10

\* last_failure_time = None / key absent from last_error_times.
NoTime == -1

\* Elapsed times are kept relative ("seconds since the recorded instant") and
\* saturate one second past the timeouts: the code only ever compares
\* now - recorded > timeout.
SatTime == timeout + 1

Advance(t, d) == IF t = NoTime THEN NoTime ELSE Min2(t + d, SatTime)

\* The decorated functions exercised: a plain function "op" that raises
\* whatever the underlying request raises, and two guarded client calls.
Fns == {"op", "get_account", "get_bars"}

\* What the underlying request does in one invocation.
RawOutcomes == {"ok", "ConnectionError", "HTTPError", "APIError500",
                "APIError429", "APIError401", "APIError403", "APIError404",
                "ValueError"}

APIErrors == {"APIError500", "APIError429", "APIError401", "APIError403",
              "APIError404"}

\* retry_on_error: exceptions = (APIError, ConnectionError, Timeout).
RetryableAny(e) == TRUE

Retryable(e) == e \in APIErrors \cup {"ConnectionError"}

\* Keys of the ErrorHandler dictionaries touched by the modelled calls.
EHKeys == {"get_account", "api_get_account", "get_bars_SYM", "market_data_SYM"}

CheckKey(fn) == IF fn = "get_account" THEN "get_account" ELSE "get_bars_SYM"

RecordKey(fn) == IF fn = "get_account" THEN "api_get_account" ELSE "market_data_SYM"

\* ErrorHandler._increment_error_count
increment_error_count(eh, error_key) ==
    LET n == eh.error_counts[error_key] + 1
    IN  [eh EXCEPT !.error_counts[error_key] = n,
                   !.last_error_times[error_key] = 0,
                   !.circuit_breakers[error_key] =
                        IF n >= circuit_breaker_threshold THEN TRUE ELSE @]

\* ErrorHandler.is_circuit_breaker_open: the answer and the handler afterwards.
is_circuit_breaker_open(eh, operation) ==
    IF ~eh.circuit_breakers[operation]
    THEN [open |-> FALSE, eh |-> eh]
    ELSE IF eh.last_error_times[operation] # NoTime
            /\ eh.last_error_times[operation] > circuit_breaker_timeout
         THEN [open |-> FALSE,
               eh |-> [eh EXCEPT !.circuit_breakers[operation] = FALSE,
                                 !.error_counts[operation] = 0]]
         ELSE [open |-> TRUE, eh |-> eh]

\* ErrorHandler.handle_api_error: always raises; slept is the cooldown taken.
handle_api_error(eh, error, operation) ==
    LET error_key == "api_" \o operation
    IN  IF error \in APIErrors
        THEN IF error = "APIError429"
             THEN [eh |-> eh, raised |-> "RateLimitError", slept |-> rate_limit_delay]
             ELSE IF error = "APIError500"
             THEN [eh |-> increment_error_count(eh, error_key),
                   raised |-> "APIConnectionError", slept |-> 0]
             ELSE IF error \in {"APIError401", "APIError403"}
             THEN [eh |-> eh, raised |-> "ConfigurationError", slept |-> 0]
             ELSE [eh |-> increment_error_count(eh, error_key),
                   raised |-> "TradingBotError", slept |-> 0]
        ELSE IF error \in {"ConnectionError", "HTTPError"}
        THEN [eh |-> increment_error_count(eh, error_key),
              raised |-> "APIConnectionError", slept |-> 0]
        ELSE [eh |-> increment_error_count(eh, error_key),
              raised |-> "TradingBotError", slept |-> 0]

\* ErrorHandler.handle_market_data_error: always raises MarketDataError.
handle_market_data_error(eh, error, symbol) ==
    [eh |-> increment_error_count(eh, "market_data_" \o symbol),
     raised |-> "MarketDataError", slept |-> 0]

\* The body of a decorated function, invoked once with the outcome raw of the
\* underlying request: the exception that leaves the body ("none" = a value
\* is returned), the ErrorHandler afterwards, the seconds slept inside.
Body(fn, eh, raw) ==
    IF fn = "op"
    THEN [eh |-> eh, raised |-> IF raw = "ok" THEN "none" ELSE raw, slept |-> 0]
    ELSE LET chk == is_circuit_breaker_open(eh, CheckKey(fn))
             err == IF chk.open THEN "APIConnectionError" ELSE raw
         IN  IF err = "ok"
             THEN [eh |-> chk.eh, raised |-> "none", slept |-> 0]
             ELSE IF fn = "get_account"
                  THEN handle_api_error(chk.eh, err, "get_account")
                  ELSE handle_market_data_error(chk.eh, err, "SYM")

VARIABLES
    g_fn,            \* the decorated function this run calls
    g_pc,            \* "idle" | "call" (about to call func) | "sleep"
    attempt,         \* retry_on_error: loop index
    current_delay,   \* retry_on_error: current_delay
    failure_count,   \* circuit_breaker closure: failure_count
    last_failure_time, \* circuit_breaker closure: seconds since it, or NoTime
    circuit_open,    \* circuit_breaker closure: circuit_open
    eh,              \* the client's ErrorHandler
    n_calls,         \* this call: times retry invoked the function it wraps
    n_invoked,       \* this call: times the body (wrapped operation) ran
    sleeps,          \* this call: the backoff sleeps taken, in order
    cooldown,        \* this call: seconds of rate-limit cooldown slept
    first_raw,       \* this call: outcome of the first underlying request
    first_raised,    \* this call: what the first call of the function raised
    last_raised,     \* this call: last exception that left the body
    result,          \* "none" | "ok" | the exception the call raised
    probe,           \* what the breaker did in the latest attempt
    streak,          \* body failures since the circuit last was reset
    run_fails        \* body failures since the last body success

gvars == <<g_fn, g_pc, attempt, current_delay, failure_count, last_failure_time,
           circuit_open, eh, n_calls, n_invoked, sleeps, cooldown, first_raw,
           first_raised, last_raised, result, probe, streak, run_fails>>

VARIABLES
    settings,              \* the settings singleton read by the strategy
    params,                \* the strategy parameters set by the trading mode
    active_positions,      \* dict symbol -> Trade
    pending_orders,        \* dict symbol -> order id (the order it names)
    position_high_prices,  \* symbol -> highest price seen, None if absent
    loop_pc,               \* where the trading loop is: update|pending|exits|process
    todo,                  \* the list the current for-loop still has to visit
    last_gen,              \* the latest generate_signals call: was the symbol held,
                           \* did its snapshot score a BUY, the signal types returned
    analysis_count,        \* _analysis_count, modulo the refresh frequency
    last_event,            \* what the latest step of the loop saw and did
    cycle_closed,          \* symbols whose position this loop iteration closed
                           \* (sell fill processed) or put up for sale
    is_trading             \* MainWindow.is_trading

svars == <<settings, params, active_positions, pending_orders, position_high_prices,
           loop_pc, todo, last_gen, analysis_count, last_event, cycle_closed,
           is_trading>>

vars == <<gvars, svars>>

\* circuit_breaker.wrapper: "check if circuit should be closed".
close_if_expiredEarly(cb) ==
    IF cb.circuit_open /\ cb.last_failure_time # NoTime
       /\ cb.last_failure_time >= 0
    THEN [cb EXCEPT !.circuit_open = FALSE, !.failure_count = 0]
    ELSE cb

close_if_expiredKeepCount(cb) ==
    IF cb.circuit_open /\ cb.last_failure_time # NoTime
       /\ cb.last_failure_time > timeout
    THEN [cb EXCEPT !.circuit_open = FALSE]
    ELSE cb

close_if_expired(cb) ==
    IF cb.circuit_open /\ cb.last_failure_time # NoTime
       /\ cb.last_failure_time > timeout
    THEN [cb EXCEPT !.circuit_open = FALSE, !.failure_count = 0]
    ELSE cb

\* circuit_breaker.wrapper: "reset failure count on success".
record_successKeepCount(cb) == cb

record_success(cb) == [cb EXCEPT !.failure_count = 0]

\* circuit_breaker.wrapper: except expected_exception.
record_failureLate(cb) ==
    LET n == cb.failure_count + 1
    IN  [failure_count |-> n, last_failure_time |-> 0,
         circuit_open |-> (n > failure_threshold)]

record_failure(cb) ==
    LET n == cb.failure_count + 1
    IN  [failure_count |-> n, last_failure_time |-> 0,
         circuit_open |-> (IF n >= failure_threshold THEN TRUE ELSE cb.circuit_open)]

\* circuit_breaker.wrapper, one call with the underlying outcome raw.
breaker_wrapper(cb, h, fn, raw) ==
    LET cb1   == close_if_expired(cb)
        reset == cb.circuit_open /\ ~cb1.circuit_open
    IN  IF cb1.circuit_open
        THEN [cb |-> cb1, eh |-> h, raised |-> "TradingBotError", invoked |-> FALSE,
              reset |-> reset, slept |-> 0]
        ELSE LET b   == Body(fn, h, raw)
                 cb2 == [cb1 EXCEPT !.last_failure_time = Advance(@, b.slept)]
             IN  IF b.raised = "none"
                 THEN [cb |-> record_success(cb2), eh |-> b.eh, raised |-> "none",
                       invoked |-> TRUE, reset |-> reset, slept |-> b.slept]
                 ELSE [cb |-> record_failure(cb2), eh |-> b.eh, raised |-> b.raised,
                       invoked |-> TRUE, reset |-> reset, slept |-> b.slept]

\* retry_on_error.wrapper: "if attempt == max_retries: raise".
last_attemptEarly(a) == a = max_retries - 1

last_attempt(a) == a = max_retries

EhInit ==
    [error_counts |-> [k \in EHKeys |-> 0],
     last_error_times |-> [k \in EHKeys |-> NoTime],
     circuit_breakers |-> [k \in EHKeys |-> FALSE]]

EhAdvance(h, d) ==
    [h EXCEPT !.last_error_times = [k \in EHKeys |-> Advance(h.last_error_times[k], d)]]

\* The resilience layer on its own: no strategy has been constructed.
NoStrategy ==
    /\ settings = "None" /\ params = "None"
    /\ active_positions = << >> /\ pending_orders = << >>
    /\ position_high_prices = "None"
    /\ loop_pc = "off" /\ todo = << >> /\ last_gen = "None"
    /\ analysis_count = 0 /\ last_event = "None"
    /\ cycle_closed = {} /\ is_trading = FALSE

GuardIdle ==
    /\ g_pc = "idle"
    /\ attempt = 0
    /\ current_delay = delay
    /\ failure_count = 0
    /\ last_failure_time = NoTime
    /\ circuit_open = FALSE
    /\ eh = EhInit
    /\ n_calls = 0
    /\ n_invoked = 0
    /\ sleeps = << >>
    /\ cooldown = 0
    /\ first_raw = "none"
    /\ first_raised = "none"
    /\ last_raised = "none"
    /\ result = "none"
    /\ probe = "none"
    /\ streak = 0
    /\ run_fails = 0

GuardInit ==
    /\ g_fn \in Fns
    /\ GuardIdle
    /\ NoStrategy

\* A caller enters retry_on_error.wrapper.
Call ==
    /\ g_pc = "idle"
    /\ g_fn = "op" \/ eh.error_counts[RecordKey(g_fn)] + max_retries + 1 <= MaxErrorCount
    /\ g_pc' = "call"
    /\ attempt' = 0
    /\ current_delay' = delay
    /\ n_calls' = 0
    /\ n_invoked' = 0
    /\ sleeps' = << >>
    /\ cooldown' = 0
    /\ first_raw' = "none"
    /\ first_raised' = "none"
    /\ last_raised' = "none"
    /\ result' = "none"
    /\ UNCHANGED <<g_fn, failure_count, last_failure_time, circuit_open, eh, probe,
                   streak, run_fails, svars>>

\* One iteration of the retry loop: func is called through the breaker and
\* the except clauses of retry_on_error.wrapper decide what follows.
Attempt ==
    /\ g_pc = "call"
    /\ \E raw \in RawOutcomes :
        LET cb == [failure_count |-> failure_count,
                   last_failure_time |-> last_failure_time,
                   circuit_open |-> circuit_open]
            r  == breaker_wrapper(cb, eh, g_fn, raw)
        IN  /\ failure_count' = r.cb.failure_count
            /\ last_failure_time' = r.cb.last_failure_time
            /\ circuit_open' = r.cb.circuit_open
            /\ eh' = EhAdvance(r.eh, r.slept)
            /\ n_calls' = n_calls + 1
            /\ n_invoked' = IF r.invoked THEN n_invoked + 1 ELSE n_invoked
            /\ cooldown' = cooldown + r.slept
            /\ first_raw' = IF r.invoked /\ n_invoked = 0 THEN raw ELSE first_raw
            /\ first_raised' = IF n_calls = 0 THEN r.raised ELSE first_raised
            /\ last_raised' = IF r.invoked /\ r.raised # "none" THEN r.raised
                              ELSE last_raised
            /\ probe' = IF ~r.invoked THEN "fail_fast"
                        ELSE IF r.reset THEN "reset_invoked" ELSE "invoked"
            /\ streak' = IF ~r.invoked THEN streak
                         ELSE IF r.raised = "none" THEN 0
                         ELSE IF r.reset THEN 1 ELSE Min2(streak + 1, failure_threshold)
            /\ run_fails' = IF ~r.invoked THEN run_fails
                            ELSE IF r.raised = "none" THEN 0
                            ELSE Min2(run_fails + 1, failure_threshold)
            /\ IF r.raised = "none"
               THEN /\ g_pc' = "idle"
                    /\ result' = "ok"
               ELSE IF Retryable(r.raised) /\ ~last_attempt(attempt)
               THEN /\ g_pc' = "sleep"
                    /\ result' = "none"
               ELSE /\ g_pc' = "idle"
                    /\ result' = r.raised
    /\ UNCHANGED <<g_fn, attempt, current_delay, sleeps, svars>>

\* retry_on_error.wrapper sleeping without the backoff: the delay stays what
\* it was.
SleepNoBackoff ==
    /\ g_pc = "sleep"
    /\ sleeps' = Append(sleeps, current_delay)
    /\ last_failure_time' = Advance(last_failure_time, current_delay)
    /\ eh' = EhAdvance(eh, current_delay)
    /\ current_delay' = current_delay
    /\ attempt' = attempt + 1
    /\ g_pc' = "call"
    /\ UNCHANGED <<g_fn, failure_count, circuit_open, n_calls, n_invoked, cooldown,
                   first_raw, first_raised, last_raised, result, probe, streak,
                   run_fails, svars>>

\* time.sleep(current_delay); current_delay *= backoff_factor; next iteration.
Sleep ==
    /\ g_pc = "sleep"
    /\ sleeps' = Append(sleeps, current_delay)
    /\ last_failure_time' = Advance(last_failure_time, current_delay)
    /\ eh' = EhAdvance(eh, current_delay)
    /\ current_delay' = current_delay * backoff_factor
    /\ attempt' = attempt + 1
    /\ g_pc' = "call"
    /\ UNCHANGED <<g_fn, failure_count, circuit_open, n_calls, n_invoked, cooldown,
                   first_raw, first_raised, last_raised, result, probe, streak,
                   run_fails, svars>>

\* Time passes between two calls.
TickSteps == {timeout, timeout + 1}

Tick ==
    /\ g_pc = "idle"
    /\ \E d \in TickSteps :
        /\ last_failure_time' = Advance(last_failure_time, d)
        /\ eh' = EhAdvance(eh, d)
        /\ (last_failure_time' # last_failure_time \/ eh' # eh)
    /\ UNCHANGED <<g_fn, g_pc, attempt, current_delay, failure_count, circuit_open,
                   n_calls, n_invoked, sleeps, cooldown, first_raw, first_raised,
                   last_raised, result, probe, streak, run_fails, svars>>

GuardNext == Call \/ Attempt \/ Sleep \/ Tick

GuardSpec == GuardInit /\ [][GuardNext]_vars

(***************************************************************************)
(* PART II - STRATEGY: strategies/scalping_strategy.py                     *)
(*                                                                         *)
(* Prices and money are integers in cents, percentages are in basis points *)
(* (1/10000), RSI is in whole points; an indicator that is None is 0 (the  *)
(* code tests indicators for truth, and 0.0 is as false as None).          *)
(***************************************************************************)

\* None where a record is expected, where a price is expected, where a reason
\* or an order side is expected.
None == [none |-> TRUE]

NoPrice == 0

NoReason == "None"

Max2(a, b) == IF a >= b THEN a ELSE b

Abs(a) == IF a < 0 THEN 0 - a ELSE a

\* Python dicts keep insertion order: a dict is a sequence of [k, v] entries.
Keys(d) == [i \in 1..Len(d) |-> d[i].k]

Has(d, key) == \E i \in 1..Len(d) : d[i].k = key

Get(d, key) == d[CHOOSE i \in 1..Len(d) : d[i].k = key].v

Put(d, key, val) ==
    IF Has(d, key)
    THEN [i \in 1..Len(d) |-> IF d[i].k = key THEN [k |-> key, v |-> val] ELSE d[i]]
    ELSE Append(d, [k |-> key, v |-> val])

Del(d, key) == SelectSeq(d, LAMBDA e : e.k # key)

Modes == {"ultra_safe", "conservative", "aggressive"}

\* TradingMode.get_mode_params: base_params, multipliers in thousandths,
\* percentages in basis points.
BaseParams(mode) ==
    IF mode = "ultra_safe"
    THEN [position_size_multiplier |-> 300, stop_loss_pct |-> 50,
          take_profit_pct |-> 100, max_daily_trades |-> 3,
          min_rsi_oversold |-> 25, max_rsi_overbought |-> 75,
          max_position_value_pct |-> 25]
    ELSE IF mode = "conservative"
    THEN [position_size_multiplier |-> 500, stop_loss_pct |-> 100,
          take_profit_pct |-> 200, max_daily_trades |-> 5,
          min_rsi_oversold |-> 30, max_rsi_overbought |-> 70,
          max_position_value_pct |-> 40]
    ELSE [position_size_multiplier |-> 1000, stop_loss_pct |-> 150,
          take_profit_pct |-> 300, max_daily_trades |-> 15,
          min_rsi_oversold |-> 35, max_rsi_overbought |-> 65,
          max_position_value_pct |-> 60]

\* TradingMode.get_mode_params without the account size tiers: the base
\* parameters and the percentage of the portfolio only.
get_mode_paramsNoTiers(mode, portfolio_value) ==
    LET b == BaseParams(mode)
    IN  [position_size_multiplier |-> b.position_size_multiplier,
         stop_loss_pct |-> b.stop_loss_pct,
         take_profit_pct |-> b.take_profit_pct,
         max_daily_trades |-> b.max_daily_trades,
         min_rsi_oversold |-> b.min_rsi_oversold,
         max_rsi_overbought |-> b.max_rsi_overbought,
         max_position_value |->
             Max2((portfolio_value * b.max_position_value_pct) \div 100, 100)]

\* TradingMode.get_mode_params with a portfolio value (cents).
get_mode_params(mode, portfolio_value) ==
    LET b    == BaseParams(mode)
        pctv == (portfolio_value * b.max_position_value_pct) \div 100
        tier == IF portfolio_value <= 10000 THEN 1
                ELSE IF portfolio_value <= 50000 THEN 2
                ELSE IF portfolio_value <= 100000 THEN 3
                ELSE IF portfolio_value <= 500000 THEN 4
                ELSE IF portfolio_value <= 2500000 THEN 5 ELSE 6
        mult == CASE tier = 1 -> (b.position_size_multiplier * 7) \div 10
                  [] tier = 2 -> (b.position_size_multiplier * 8) \div 10
                  [] tier = 3 -> (b.position_size_multiplier * 9) \div 10
                  [] tier = 4 -> b.position_size_multiplier
                  [] tier = 5 -> (b.position_size_multiplier * 11) \div 10
                  [] tier = 6 -> (b.position_size_multiplier * 12) \div 10
        mpv  == CASE tier = 1 -> Min2(pctv, 1500)
                  [] tier = 2 -> Min2(pctv, 5000)
                  [] tier = 3 -> Min2(pctv, 10000)
                  [] tier = 4 -> Min2(pctv, 50000)
                  [] tier = 5 -> Min2(pctv, 250000)
                  [] tier = 6 -> pctv
        mdt  == CASE tier = 1 -> Min2(b.max_daily_trades, 5)
                  [] tier = 5 /\ mode = "aggressive" -> Min2(b.max_daily_trades + 5, 25)
                  [] tier = 6 /\ mode = "aggressive" -> Min2(b.max_daily_trades + 10, 35)
                  [] OTHER -> b.max_daily_trades
        big  == tier = 6 /\ mode = "aggressive"
    IN  [position_size_multiplier |-> mult,
         stop_loss_pct |-> b.stop_loss_pct,
         take_profit_pct |-> b.take_profit_pct,
         max_daily_trades |-> mdt,
         min_rsi_oversold |-> IF big THEN Max2(b.min_rsi_oversold - 5, 25)
                              ELSE b.min_rsi_oversold,
         max_rsi_overbought |-> IF big THEN Min2(b.max_rsi_overbought + 5, 75)
                                ELSE b.max_rsi_overbought,
         max_position_value |-> Max2(mpv, 100)]

\* settings.support_threshold / resistance_threshold defaults (basis points).
default_support_threshold == 200

default_resistance_threshold == 150

\* ScalpingStrategy._update_trading_mode_parameters: the strategy parameters
\* that result for a mode and a portfolio value.
update_trading_mode_parameters(mode, portfolio_value) ==
    LET mp == get_mode_params(mode, portfolio_value)
    IN  [stop_loss_pct |-> mp.stop_loss_pct,
         take_profit_pct |-> mp.take_profit_pct,
         rsi_oversold |-> mp.min_rsi_oversold,
         rsi_overbought |-> mp.max_rsi_overbought,
         support_threshold |-> CASE mode = "ultra_safe" -> 150
                                 [] mode = "aggressive" -> 50
                                 [] OTHER -> default_support_threshold,
         resistance_threshold |-> CASE mode = "ultra_safe" -> 150
                                    [] mode = "aggressive" -> 50
                                    [] OTHER -> default_resistance_threshold,
         trailing_stop_pct |-> CASE mode = "ultra_safe" -> 120
                                 [] mode = "aggressive" -> 80
                                 [] OTHER -> 100,
         min_profit_for_trailing |-> CASE mode = "ultra_safe" -> 80
                                       [] mode = "aggressive" -> 30
                                       [] OTHER -> 50,
         min_buy_score |-> CASE mode = "ultra_safe" -> 4
                             [] mode = "aggressive" -> 2
                             [] OTHER -> 3]

\* ---- Signals --------------------------------------------------------------
\* A snapshot (StockData) is [symbol, quote, ti, support_levels,
\* resistance_levels]: quote is None or [bid, ask]; ti is None or [rsi, sma_20,
\* bollinger_upper, bollinger_middle, bollinger_lower]; the levels are sets of
\* prices.  p is the record of strategy parameters.

SetMax(S) == CHOOSE x \in S : \A y \in S : y <= x

SetMin(S) == CHOOSE x \in S : \A y \in S : x <= y

\* ScalpingStrategy._find_nearest_support: price of the level, or None.
find_nearest_support(sd, current_price) ==
    LET below == {l \in sd.support_levels : l < current_price}
    IN  IF below = {} THEN NoPrice ELSE SetMax(below)

\* ScalpingStrategy._find_nearest_resistance: price of the level, or None.
find_nearest_resistance(sd, current_price) ==
    LET above == {l \in sd.resistance_levels : l > current_price}
    IN  IF above = {} THEN NoPrice ELSE SetMin(above)

\* ScalpingStrategy._is_favorable_market_condition
is_favorable_market_conditionNoSpread(sd) ==
    IF sd.ti = None THEN TRUE
    ELSE IF sd.quote = None THEN FALSE
    ELSE LET t == sd.ti
             current_price == sd.quote.bid
         IN  /\ ~(/\ t.bollinger_upper # 0 /\ t.bollinger_lower # 0
                  /\ t.bollinger_middle # 0
                  /\ (t.bollinger_upper - t.bollinger_lower) * 4 > t.bollinger_middle)
             /\ ~(t.rsi # 0 /\ (t.rsi > 80 \/ t.rsi < 15))
             /\ ~(t.sma_20 # 0 /\ Abs(current_price - t.sma_20) * 20 > t.sma_20)

is_favorable_market_condition(sd) ==
    IF sd.ti = None THEN TRUE
    ELSE IF sd.quote = None THEN FALSE
    ELSE LET t == sd.ti
             current_price == sd.quote.bid
         IN  /\ ~(/\ t.bollinger_upper # 0 /\ t.bollinger_lower # 0
                  /\ t.bollinger_middle # 0
                  /\ (t.bollinger_upper - t.bollinger_lower) * 4 > t.bollinger_middle)
             /\ ~(t.rsi # 0 /\ (t.rsi > 80 \/ t.rsi < 15))
             /\ ~((sd.quote.ask - sd.quote.bid) * 100 > sd.quote.bid)
             /\ ~(t.sma_20 # 0 /\ Abs(current_price - t.sma_20) * 20 > t.sma_20)

\* generate_signals, "enhanced buy signal conditions": the conditions that
\* hold, in the order the code appends them, each with its score.
BuyConditions(sd, p) ==
    LET t  == sd.ti
        cp == sd.quote.ask
        ns == find_nearest_support(sd, cp)
        nr == find_nearest_resistance(sd, cp)
        c1 == IF ns # NoPrice /\ ns > 0 /\ cp > 0
                 /\ Abs(cp - ns) * 10000 <= p.support_threshold * cp
              THEN << [name |-> "Near support", score |-> 3] >> ELSE << >>
        c2 == IF t.rsi # 0 /\ t.rsi <= p.rsi_oversold
              THEN << [name |-> "RSI oversold", score |-> 2] >>
              ELSE IF t.rsi # 0 /\ t.rsi <= p.rsi_oversold + 5
              THEN << [name |-> "RSI approaching oversold", score |-> 1] >>
              ELSE << >>
        c3 == IF t.bollinger_lower # 0 /\ cp * 100 <= t.bollinger_lower * 102
              THEN << [name |-> "Near lower Bollinger Band", score |-> 2] >> ELSE << >>
        c4 == IF t.sma_20 # 0 /\ cp * 100 > t.sma_20 * 98
              THEN << [name |-> "Price near/above SMA20", score |-> 1] >> ELSE << >>
        c5 == IF /\ t.bollinger_upper # 0 /\ t.bollinger_lower # 0
                 /\ t.bollinger_middle # 0
                 /\ (t.bollinger_upper - t.bollinger_lower) * 10 < t.bollinger_middle
              THEN << [name |-> "Low volatility (BB squeeze)", score |-> 1] >> ELSE << >>
        c6 == IF /\ nr # NoPrice /\ nr > 0 /\ ns # NoPrice /\ ns > 0 /\ cp > 0
                 /\ cp - ns > 0
                 /\ nr - cp >= 2 * (cp - ns)
              THEN << [name |-> "Good R/R ratio", score |-> 2] >> ELSE << >>
    IN  c1 \o c2 \o c3 \o c4 \o c5 \o c6

RECURSIVE SumScores(_)
SumScores(cs) == IF cs = << >> THEN 0 ELSE Head(cs).score + SumScores(Tail(cs))

\* ScalpingStrategy.generate_signals: the list of (signal_type, reason).
generate_signalsNoSkip(sd, active, pending, p) ==
    IF sd.quote = None THEN << >>
    ELSE IF sd.ti = None THEN << >>
    ELSE IF ~is_favorable_market_condition(sd) THEN << >>
    ELSE LET cs == BuyConditions(sd, p)
         IN  IF Len(cs) >= 2 /\ SumScores(cs) >= p.min_buy_score
             THEN << <<"BUY", [i \in 1..Len(cs) |-> cs[i].name]>> >>
             ELSE << >>

generate_signalsOneCondition(sd, active, pending, p) ==
    IF sd.quote = None THEN << >>
    ELSE IF Has(active, sd.symbol) \/ Has(pending, sd.symbol) THEN << >>
    ELSE IF sd.ti = None THEN << >>
    ELSE IF ~is_favorable_market_condition(sd) THEN << >>
    ELSE LET cs == BuyConditions(sd, p)
         IN  IF Len(cs) >= 1 /\ SumScores(cs) >= p.min_buy_score
             THEN << <<"BUY", [i \in 1..Len(cs) |-> cs[i].name]>> >>
             ELSE << >>

generate_signals(sd, active, pending, p) ==
    IF sd.quote = None THEN << >>
    ELSE IF Has(active, sd.symbol) \/ Has(pending, sd.symbol) THEN << >>
    ELSE IF sd.ti = None THEN << >>
    ELSE IF ~is_favorable_market_condition(sd) THEN << >>
    ELSE LET cs == BuyConditions(sd, p)
         IN  IF Len(cs) >= 2 /\ SumScores(cs) >= p.min_buy_score
             THEN << <<"BUY", [i \in 1..Len(cs) |-> cs[i].name]>> >>
             ELSE << >>

\* ---- Exits ----------------------------------------------------------------

\* ScalpingStrategy._calculate_dynamic_take_profit, in millionths.
calculate_dynamic_take_profit(sd, p) ==
    LET t  == sd.ti
        b0 == p.take_profit_pct * 100
        b1 == IF t # None /\ t.rsi # 0
              THEN IF t.rsi > 60 THEN (b0 * 12) \div 10
                   ELSE IF t.rsi < 40 THEN (b0 * 8) \div 10 ELSE b0
              ELSE b0
        b2 == IF t # None /\ t.bollinger_upper # 0 /\ t.bollinger_lower # 0
                 /\ sd.quote # None
              THEN LET w  == t.bollinger_upper - t.bollinger_lower
                       up == IF w = 0 THEN sd.quote.bid > t.bollinger_lower
                             ELSE (sd.quote.bid - t.bollinger_lower) * 10 > 7 * w
                   IN  IF up THEN (b1 * 115) \div 100 ELSE b1
              ELSE b1
    IN  Max2(10000, Min2(b2, 50000))

\* ScalpingStrategy._is_momentum_weakening
is_momentum_weakening(sd) ==
    IF sd.ti = None THEN FALSE
    ELSE \/ (sd.ti.rsi # 0 /\ sd.ti.rsi > 70)
         \/ (/\ sd.ti.rsi # 0 /\ sd.ti.rsi > 65 /\ sd.ti.bollinger_upper # 0
             /\ sd.quote # None
             /\ sd.quote.bid * 100 >= sd.ti.bollinger_upper * 98)

\* ScalpingStrategy.check_exit_conditions for a symbol whose position was
\* opened at entry_price, given the snapshot analyze_symbol returned (sd, not
\* None) and the highest price recorded so far (high, None if none): the new
\* highest price and the exit reason (None when no exit is signalled).
check_exit_conditionsRsiFirst(sd, entry_price, high, p) ==
    IF sd.quote = None THEN [high |-> high, reason |-> NoReason]
    ELSE
    LET cp    == sd.quote.bid
        gain  == cp - entry_price
        h     == IF high = NoPrice THEN cp ELSE Max2(high, cp)
        trail == gain * 10000 >= p.min_profit_for_trailing * entry_price
        tp    == calculate_dynamic_take_profit(sd, p)
        nr    == find_nearest_resistance(sd, cp)
        thr   == IF gain * 100 > entry_price THEN p.rsi_overbought - 5
                 ELSE p.rsi_overbought
        why   == IF trail /\ cp * 10000 <= h * (10000 - p.trailing_stop_pct)
                 THEN "Trailing stop"
                 ELSE IF ~trail /\ gain * 10000 <= (0 - p.stop_loss_pct) * entry_price
                 THEN "Stop loss"
                 ELSE IF sd.ti # None /\ sd.ti.rsi # 0 /\ sd.ti.rsi >= thr
                 THEN "RSI overbought"
                 ELSE IF gain * 1000000 >= tp * entry_price
                 THEN "Dynamic take profit"
                 ELSE IF /\ nr # NoPrice /\ nr > 0 /\ cp > 0
                         /\ Abs(cp - nr) * 10000 <= p.resistance_threshold * cp
                         /\ is_momentum_weakening(sd)
                 THEN "Near resistance"
                 ELSE IF sd.ti = None THEN NoReason
                 ELSE IF sd.ti.rsi # 0 /\ sd.ti.rsi >= thr
                 THEN "RSI overbought"
                 ELSE IF sd.ti.bollinger_upper # 0
                         /\ cp * 100 >= sd.ti.bollinger_upper * 99
                 THEN "Near upper Bollinger Band"
                 ELSE NoReason
    IN  [high |-> h, reason |-> why]


check_exit_conditions(sd, entry_price, high, p) ==
    IF sd.quote = None THEN [high |-> high, reason |-> NoReason]
    ELSE
    LET cp    == sd.quote.bid
        gain  == cp - entry_price
        h     == IF high = NoPrice THEN cp ELSE Max2(high, cp)
        trail == gain * 10000 >= p.min_profit_for_trailing * entry_price
        tp    == calculate_dynamic_take_profit(sd, p)
        nr    == find_nearest_resistance(sd, cp)
        thr   == IF gain * 100 > entry_price THEN p.rsi_overbought - 5
                 ELSE p.rsi_overbought
        why   == IF trail /\ cp * 10000 <= h * (10000 - p.trailing_stop_pct)
                 THEN "Trailing stop"
                 ELSE IF ~trail /\ gain * 10000 <= (0 - p.stop_loss_pct) * entry_price
                 THEN "Stop loss"
                 ELSE IF gain * 1000000 >= tp * entry_price
                 THEN "Dynamic take profit"
                 ELSE IF /\ nr # NoPrice /\ nr > 0 /\ cp > 0
                         /\ Abs(cp - nr) * 10000 <= p.resistance_threshold * cp
                         /\ is_momentum_weakening(sd)
                 THEN "Near resistance"
                 ELSE IF sd.ti = None THEN NoReason
                 ELSE IF sd.ti.rsi # 0 /\ sd.ti.rsi >= thr
                 THEN "RSI overbought"
                 ELSE IF sd.ti.bollinger_upper # 0
                         /\ cp * 100 >= sd.ti.bollinger_upper * 99
                 THEN "Near upper Bollinger Band"
                 ELSE NoReason
    IN  [high |-> h, reason |-> why]

\* check_exit_conditions, its exit rules one by one in the order of the code:
\* whether each would match for the snapshot, taken on its own.  h is the
\* highest price after this call's update.
exit_rules(sd, entry_price, h, p) ==
    LET cp    == sd.quote.bid
        gain  == cp - entry_price
        trail == gain * 10000 >= p.min_profit_for_trailing * entry_price
        nr    == find_nearest_resistance(sd, cp)
        thr   == IF gain * 100 > entry_price THEN p.rsi_overbought - 5
                 ELSE p.rsi_overbought
    IN  << [name |-> "Trailing stop",
            matches |-> trail /\ cp * 10000 <= h * (10000 - p.trailing_stop_pct)],
           [name |-> "Stop loss",
            matches |-> ~trail /\ gain * 10000 <= (0 - p.stop_loss_pct) * entry_price],
           [name |-> "Dynamic take profit",
            matches |-> gain * 1000000 >= calculate_dynamic_take_profit(sd, p) * entry_price],
           [name |-> "Near resistance",
            matches |-> /\ nr # NoPrice /\ nr > 0 /\ cp > 0
                        /\ Abs(cp - nr) * 10000 <= p.resistance_threshold * cp
                        /\ is_momentum_weakening(sd)],
           [name |-> "RSI overbought",
            matches |-> sd.ti # None /\ sd.ti.rsi # 0 /\ sd.ti.rsi >= thr],
           [name |-> "Near upper Bollinger Band",
            matches |-> /\ sd.ti # None /\ sd.ti.bollinger_upper # 0
                        /\ cp * 100 >= sd.ti.bollinger_upper * 99] >>

\* ---- Order / position lifecycle -------------------------------------------

Symbols == {"AAPL", "MSFT"}

\* MainWindow.selected_symbols, in polling order.
selected_symbols == <<"AAPL", "MSFT">>

\* Fill prices (cents) and filled quantities the broker reports.
Prices == {10010}

Qtys == {1}

\* settings.parameter_refresh_frequency (default).
parameter_refresh_frequency == 10

\* Settings read by the strategy: [trading_mode, fixed_trade_amount_enabled,
\* fixed_trade_amount, custom_portfolio_value_enabled, custom_portfolio_value,
\* enable_dynamic_parameters].
Configs ==
    { [trading_mode |-> "conservative", fixed_trade_amount_enabled |-> FALSE,
       fixed_trade_amount |-> 10000, custom_portfolio_value_enabled |-> FALSE,
       custom_portfolio_value |-> 20000, enable_dynamic_parameters |-> TRUE],
      [trading_mode |-> "aggressive", fixed_trade_amount_enabled |-> TRUE,
       fixed_trade_amount |-> 10000, custom_portfolio_value_enabled |-> TRUE,
       custom_portfolio_value |-> 15000, enable_dynamic_parameters |-> FALSE] }

\* Account answers of the broker: [buying_power, cash, portfolio_value].
Accounts ==
    { [buying_power |-> 100000, cash |-> 100000, portfolio_value |-> 100000],
      [buying_power |-> 0, cash |-> 0, portfolio_value |-> 100000] }

\* Indicator sets and snapshots the market data can produce.
Indicators ==
    { [rsi |-> r, sma_20 |-> 10000, bollinger_upper |-> 10250,
       bollinger_middle |-> 10000, bollinger_lower |-> 9750] : r \in {28, 78} }

Quotes == { [bid |-> 9800, ask |-> 9800], [bid |-> 10000, ask |-> 10000],
            [bid |-> 10300, ask |-> 10300], [bid |-> 10000, ask |-> 10200] }

Snapshots(sym) ==
    { [symbol |-> sym, quote |-> q, ti |-> t, support_levels |-> sl,
       resistance_levels |-> rl] :
      q \in Quotes, t \in Indicators \cup {None},
      sl \in {{9750}}, rl \in {{10350}} }

\* A Trade held in active_positions.
Trade(trade_type, quantity, price) ==
    [trade_type |-> trade_type, quantity |-> quantity, price |-> price,
     status |-> "filled"]

\* A quantity or price that float() cannot convert (a string, a Mock). A
\* quantity or price that is None is NoPrice; real ones are positive
\* (Trade.__post_init__).
Malformed == -1

\* _calculate_allocated_capital, one pass of the for-loop: whether it raises
\* and what it adds to total_allocated.
allocated_position_value(trade) ==
    IF trade = None THEN [raises |-> FALSE, value |-> 0]
    ELSE IF ~(trade.trade_type = "buy" /\ trade.status = "filled")
    THEN [raises |-> FALSE, value |-> 0]
    ELSE IF trade.quantity = NoPrice \/ trade.price = NoPrice
    THEN [raises |-> FALSE, value |-> 0]
    ELSE IF trade.quantity = Malformed \/ trade.price = Malformed
    THEN [raises |-> TRUE, value |-> 0]
    ELSE [raises |-> FALSE, value |-> trade.quantity * trade.price]

\* _calculate_allocated_capital, the for-loop inside try: whether some pass
\* raised and the total of the passes.
RECURSIVE allocated_loop(_)
allocated_loop(active) ==
    IF active = << >> THEN [raises |-> FALSE, total |-> 0]
    ELSE LET x    == allocated_position_value(Head(active).v)
             rest == allocated_loop(Tail(active))
         IN  [raises |-> x.raises \/ rest.raises, total |-> x.value + rest.total]

\* _calculate_allocated_capital with an except clause that keeps the total
\* reached by the other passes.
calculate_allocated_capitalKeepTotal(active) == allocated_loop(active).total

\* ScalpingStrategy._calculate_allocated_capital
calculate_allocated_capital(active) ==
    IF allocated_loop(active).raises THEN 0 ELSE allocated_loop(active).total

\* What the broker holds at startup: per symbol a position [qty, avg] or None
\* and an open order [side, status] or None; fail tells which recovery
\* request raises.
BrokerPositions == [Symbols -> {None, [qty |-> 1, avg |-> 10000]}]

BrokerOrder(side, status) == [side |-> side, status |-> status]

BrokerOpenOrders ==
    [Symbols -> {None, BrokerOrder("buy", "new"), BrokerOrder("sell", "new")}]

\* The order statuses _recover_existing_state takes over.
RecoveredStatuses == {"new", "partially_filled", "pending_new", "accepted"}

RecoveryFailures == {"none", "get_positions", "get_orders"}

\* ScalpingStrategy._recover_existing_state, positions part: symbols are
\* visited in the broker's order; quote_bid is what get_latest_quote answers
\* (None when it raises or is empty).
RECURSIVE RecoverPositions(_, _, _, _)
RecoverPositions(syms, positions, quote_bid, acc) ==
    IF syms = << >> THEN acc
    ELSE LET sym == Head(syms)
             pos == positions[sym]
         IN  IF pos = None \/ pos.qty = 0
             THEN RecoverPositions(Tail(syms), positions, quote_bid, acc)
             ELSE RecoverPositions(Tail(syms), positions, quote_bid,
                    [active |-> Put(acc.active, sym,
                                    Trade(IF pos.qty > 0 THEN "buy" ELSE "sell",
                                          Abs(pos.qty), pos.avg)),
                     high |-> [acc.high EXCEPT ![sym] =
                                  IF quote_bid[sym] = NoPrice THEN pos.avg
                                  ELSE quote_bid[sym]]])

\* An order id stands for the order the broker keeps under it: its side,
\* whether it is a MockOrder of _execute_buy_order (unknown to the broker), and
\* whether the strategy submitted it or recovery found it.
Order(side, simulated, origin) ==
    [side |-> side, simulated |-> simulated, origin |-> origin]

\* ScalpingStrategy._recover_existing_state, open orders part.
RECURSIVE RecoverOrders(_, _, _)
RecoverOrders(syms, orders, pending) ==
    IF syms = << >> THEN pending
    ELSE LET sym == Head(syms)
         IN  IF orders[sym] = None \/ orders[sym].status \notin RecoveredStatuses
             THEN RecoverOrders(Tail(syms), orders, pending)
             ELSE RecoverOrders(Tail(syms), orders,
                                Put(pending, sym,
                                    Order(orders[sym].side, FALSE, "recovered")))

NoHigh == [sym \in Symbols |-> NoPrice]

\* ScalpingStrategy._recover_existing_state
recover_existing_statePositionsOnly(positions, orders, quote_bid, fail) ==
    LET rp == IF fail = "get_positions"
              THEN [active |-> << >>, high |-> NoHigh]
              ELSE RecoverPositions(selected_symbols, positions, quote_bid,
                                    [active |-> << >>, high |-> NoHigh])
    IN  [active |-> rp.active, high |-> rp.high, pending |-> << >>]

recover_existing_state(positions, orders, quote_bid, fail) ==
    LET rp == IF fail = "get_positions"
              THEN [active |-> << >>, high |-> NoHigh]
              ELSE RecoverPositions(selected_symbols, positions, quote_bid,
                                    [active |-> << >>, high |-> NoHigh])
    IN  [active |-> rp.active, high |-> rp.high,
         pending |-> RecoverOrders(selected_symbols,
                        IF fail = "none" THEN orders ELSE [sym \in Symbols |-> None],
                        << >>)]

\* BUY decision of generate_signals' scoring for a snapshot with quote and
\* indicators.
BuyScoreMet(sd, p) ==
    LET cs == BuyConditions(sd, p)
    IN  Len(cs) >= 2 /\ SumScores(cs) >= p.min_buy_score

\* ScalpingStrategy._handle_order_filled
handle_order_filledKeepOld(active, sym, side, fill_price, quantity) ==
    IF side = "buy"
    THEN IF Has(active, sym) THEN active
         ELSE Put(active, sym, Trade("buy", quantity, fill_price))
    ELSE IF Has(active, sym) THEN Del(active, sym) ELSE active

handle_order_filled(active, sym, side, fill_price, quantity) ==
    IF side = "buy"
    THEN Put(active, sym, Trade("buy", quantity, fill_price))
    ELSE IF Has(active, sym) THEN Del(active, sym) ELSE active

\* update_positions, one iteration of "check pending orders" for a symbol
\* whose order the broker reports as rep = [status, fill_price, quantity]:
\* the maps afterwards.
reconcile_pendingKeep(active, pending, sym, rep) ==
    IF rep.status = "filled"
    THEN [active |-> handle_order_filled(active, sym, Get(pending, sym).side,
                                         rep.fill_price, rep.quantity),
          pending |-> pending]
    ELSE IF rep.status \in {"cancelled", "rejected", "expired"}
    THEN [active |-> active, pending |-> Del(pending, sym)]
    ELSE [active |-> active, pending |-> pending]

reconcile_pending(active, pending, sym, rep) ==
    IF rep.status = "filled"
    THEN [active |-> handle_order_filled(active, sym, Get(pending, sym).side,
                                         rep.fill_price, rep.quantity),
          pending |-> Del(pending, sym)]
    ELSE IF rep.status \in {"cancelled", "rejected", "expired"}
    THEN [active |-> active, pending |-> Del(pending, sym)]
    ELSE [active |-> active, pending |-> pending]

\* BrokerPort.getOrder(id): the answers for an order the broker knows.  The
\* broker's own word for a cancelled order is "canceled" (the orders view of
\* the main window accepts both spellings).
OrderReports ==
    { [status |-> st, fill_price |-> 0, quantity |-> 0] :
        st \in {"new", "partially_filled", "canceled", "cancelled", "rejected",
                "expired"} }
    \cup { [status |-> "filled", fill_price |-> fp, quantity |-> q] :
             fp \in Prices, q \in Qtys }

\* _execute_buy_order: the notional it decides to buy for, or None when the
\* order is refused ("insufficient ..." raised).
buy_notionalNoCeiling(cfg, account, active) ==
    LET buying_power == account.buying_power
        available_funds == IF buying_power >= 100 THEN buying_power
                           ELSE IF account.cash > 0 THEN account.cash
                           ELSE Max2(account.portfolio_value \div 100, 1000)
        portfolio_value == IF cfg.custom_portfolio_value_enabled
                           THEN cfg.custom_portfolio_value
                           ELSE account.portfolio_value
        remaining == portfolio_value - calculate_allocated_capital(active)
        mp  == get_mode_params(cfg.trading_mode, portfolio_value)
        dyn == Min2(Min2((portfolio_value * 5 * mp.position_size_multiplier) \div 100000,
                         mp.max_position_value),
                    portfolio_value \div 10)
        v1  == IF cfg.fixed_trade_amount_enabled THEN cfg.fixed_trade_amount ELSE dyn
        v2  == IF ~cfg.fixed_trade_amount_enabled /\ available_funds < v1
               THEN Min2((available_funds * 95) \div 100, v1) ELSE v1
    IN  IF v1 < 100 THEN NoPrice
        ELSE IF v2 < 100 THEN NoPrice
        ELSE v2

buy_notional(cfg, account, active) ==
    LET buying_power == account.buying_power
        available_funds == IF buying_power >= 100 THEN buying_power
                           ELSE IF account.cash > 0 THEN account.cash
                           ELSE Max2(account.portfolio_value \div 100, 1000)
        portfolio_value == IF cfg.custom_portfolio_value_enabled
                           THEN cfg.custom_portfolio_value
                           ELSE account.portfolio_value
        remaining == portfolio_value - calculate_allocated_capital(active)
        mp  == get_mode_params(cfg.trading_mode, portfolio_value)
        dyn == Min2(Min2((portfolio_value * 5 * mp.position_size_multiplier) \div 100000,
                         mp.max_position_value),
                    portfolio_value \div 10)
        v1  == IF cfg.fixed_trade_amount_enabled THEN cfg.fixed_trade_amount ELSE dyn
        v2  == IF ~cfg.fixed_trade_amount_enabled /\ available_funds < v1
               THEN Min2((available_funds * 95) \div 100, v1) ELSE v1
    IN  IF cfg.fixed_trade_amount_enabled /\ v1 > remaining THEN NoPrice
        ELSE IF v1 < 100 THEN NoPrice
        ELSE IF v2 < 100 THEN NoPrice
        ELSE v2

SInit ==
    /\ settings \in Configs
    /\ \E account \in Accounts :
          params = update_trading_mode_parameters(settings.trading_mode,
                      IF settings.custom_portfolio_value_enabled
                      THEN settings.custom_portfolio_value
                      ELSE account.portfolio_value)
    /\ \E positions \in BrokerPositions, orders \in BrokerOpenOrders,
          fail \in RecoveryFailures, quote_bid \in {[sym \in Symbols |-> b] : b \in {NoPrice, 10300}} :
          LET r == recover_existing_state(positions, orders, quote_bid, fail)
          IN  /\ active_positions = r.active
              /\ pending_orders = r.pending
              /\ position_high_prices = r.high
    /\ loop_pc = "update"
    /\ todo = << >>
    /\ last_gen = None
    /\ analysis_count = 0
    /\ last_event = None
    /\ cycle_closed = {}
    /\ is_trading = TRUE
    /\ g_fn = "op"
    /\ GuardIdle

\* analyze_symbol: every parameter_refresh_frequency-th analysis calls
\* refresh_dynamic_parameters, which subtracts _last_portfolio_value (None
\* since __init__) from a float and so raises before it assigns anything.
count_analysis(cfg, n) ==
    IF cfg.enable_dynamic_parameters THEN (n + 1) % parameter_refresh_frequency ELSE n

analyze_raises(cfg, n) ==
    cfg.enable_dynamic_parameters /\ (n + 1) % parameter_refresh_frequency = 0

\* _trading_loop: "while self.is_trading".
loop_continuesAlways(trading) == TRUE

loop_continues(trading) == trading

\* The trading loop enters its next for-loop when the current one is done:
\* update_positions' pending orders, then its exits, then the symbols.
NextPhase ==
    /\ todo = << >>
    /\ loop_pc \in {"update", "pending", "exits", "process"}
    /\ CASE loop_pc = "update" ->
              \* while self.is_trading
              /\ loop_pc' = IF loop_continues(is_trading) THEN "pending" ELSE "stopped"
              /\ todo' = IF loop_continues(is_trading) THEN Keys(pending_orders)
                         ELSE << >>
              /\ UNCHANGED cycle_closed
         [] loop_pc = "pending" ->
              /\ loop_pc' = "exits"
              /\ todo' = Keys(active_positions)
              /\ UNCHANGED cycle_closed
         [] loop_pc = "exits" ->
              /\ loop_pc' = "process"
              /\ todo' = selected_symbols
              /\ UNCHANGED cycle_closed
         [] loop_pc = "process" ->
              /\ loop_pc' = "update"
              /\ todo' = << >>
              /\ cycle_closed' = {}
    /\ last_event' = None
    /\ UNCHANGED <<settings, params, active_positions, pending_orders,
                   position_high_prices, last_gen, analysis_count, is_trading, gvars>>

\* _handle_order_filled, sell branch: the P&L it logs for the closed position.
realized_pnlReversed(position, fill_price, quantity) ==
    (position.price - fill_price) * quantity

realized_pnl(position, fill_price, quantity) ==
    (fill_price - position.price) * quantity

\* _place_buy_order and _place_sell_order, after the order is tracked in
\* pending_orders: account_update_callback and order_update_callback, both
\* registered by MainWindow, are invoked in this order. Nothing is invoked
\* when the function raised before.
order_callbacks(tracked) ==
    IF tracked THEN <<"account_update", "order_update">> ELSE << >>

\* update_positions, _handle_order_filled and _handle_order_cancelled: the
\* callbacks invoked while a pending order is looked up and handled.
update_callbacks == << >>

\* What a step that looked an order up records: the report and, for a sell
\* fill that closed a position, the entry price and the P&L logged.
OrderEvent(sym, side, rep, active) ==
    LET closes == rep.status = "filled" /\ side = "sell" /\ Has(active, sym)
    IN  [kind |-> "order", symbol |-> sym, side |-> side, status |-> rep.status,
         fill_price |-> rep.fill_price, quantity |-> rep.quantity,
         closes |-> closes,
         callbacks |-> update_callbacks,
         entry_price |-> IF closes THEN Get(active, sym).price ELSE NoPrice,
         pnl |-> IF closes
                 THEN realized_pnl(Get(active, sym), rep.fill_price, rep.quantity)
                 ELSE 0]

NoReport(status) == [status |-> status, fill_price |-> 0, quantity |-> 0]

\* update_positions, "check pending orders": get_order for one entry.
PendingStep ==
    /\ loop_pc = "pending"
    /\ todo # << >>
    /\ LET sym == Head(todo)
           side == Get(pending_orders, sym).side
       IN  \/ \* get_order raises: safe_execute ends update_positions
              /\ loop_pc' = "process"
              /\ todo' = selected_symbols
              /\ last_event' = OrderEvent(sym, side, NoReport("raise"), active_positions)
              /\ UNCHANGED <<active_positions, pending_orders>>
           \/ \* get_order returns nothing
              /\ loop_pc' = loop_pc
              /\ todo' = Tail(todo)
              /\ last_event' = OrderEvent(sym, side, NoReport("none"), active_positions)
              /\ UNCHANGED <<active_positions, pending_orders>>
           \/ /\ ~Get(pending_orders, sym).simulated
              /\ \E rep \in OrderReports :
                    LET r == reconcile_pending(active_positions, pending_orders,
                                               sym, rep)
                    IN  /\ active_positions' = r.active
                        /\ pending_orders' = r.pending
                        /\ last_event' = OrderEvent(sym, side, rep, active_positions)
              /\ loop_pc' = loop_pc
              /\ todo' = Tail(todo)
    /\ cycle_closed' = IF last_event'.closes THEN cycle_closed \cup {Head(todo)}
                       ELSE cycle_closed
    /\ UNCHANGED <<settings, params, position_high_prices, last_gen, analysis_count,
                   is_trading, gvars>>

\* What the broker and the quote feed answer to _execute_sell_order:
\* place_order fails; place_order succeeds and get_latest_quote raises;
\* both succeed.
SellOutcomes == {"rejected", "accepted_quote_raises", "accepted"}

\* ScalpingStrategy._execute_sell_order: pending_orders afterwards.
execute_sell_order(pending, sym, outcome) ==
    IF outcome = "accepted" THEN Put(pending, sym, Order("sell", FALSE, "strategy"))
    ELSE pending

\* update_positions, "check exit conditions": one active position.
ExitStep ==
    /\ loop_pc = "exits"
    /\ todo # << >>
    /\ analysis_count' = count_analysis(settings, analysis_count)
    /\ LET sym == Head(todo)
           ev(raised, sold, tracked) ==
               [kind |-> "exit", symbol |-> sym, raised |-> raised, sold |-> sold,
                callbacks |-> order_callbacks(tracked)]
       IN  IF analyze_raises(settings, analysis_count)
           THEN /\ loop_pc' = "process"
                /\ todo' = selected_symbols
                /\ last_event' = ev(TRUE, FALSE, FALSE)
                /\ UNCHANGED <<pending_orders, position_high_prices>>
           ELSE
           /\ loop_pc' = loop_pc
           /\ todo' = Tail(todo)
           /\ \/ \* analyze_symbol returns None
                 /\ last_event' = ev(FALSE, FALSE, FALSE)
                 /\ UNCHANGED <<pending_orders, position_high_prices>>
              \/ \E sd \in Snapshots(sym) :
                    LET x == check_exit_conditions(sd, Get(active_positions, sym).price,
                                                   position_high_prices[sym], params)
                    IN  /\ position_high_prices' =
                               [position_high_prices EXCEPT ![sym] = x.high]
                        /\ IF x.reason = NoReason
                           THEN /\ last_event' = ev(FALSE, FALSE, FALSE)
                                /\ UNCHANGED pending_orders
                           ELSE \E outcome \in SellOutcomes :
                                /\ pending_orders' =
                                    execute_sell_order(pending_orders, sym, outcome)
                                /\ last_event' = ev(FALSE, outcome # "rejected",
                                                     outcome = "accepted")
    /\ cycle_closed' = IF last_event'.sold THEN cycle_closed \cup {Head(todo)}
                       ELSE cycle_closed
    /\ UNCHANGED <<settings, params, active_positions, last_gen, is_trading, gvars>>

\* _execute_buy_order tracking the order whether or not place_notional_order
\* gave one.
execute_buy_orderTrackAnyway(cfg, active, pending, sym, account, quote_ok, order_ok) ==
    IF account = None \/ ~quote_ok THEN pending
    ELSE IF buy_notional(cfg, account, active) = NoPrice THEN pending
    ELSE Put(pending, sym, Order("buy", account.buying_power = 0, "strategy"))

\* ScalpingStrategy._execute_buy_order: account is the broker's answer (None
\* when get_account fails), quote_ok whether get_latest_quote gave a quote,
\* order_ok whether place_notional_order gave an order; pending_orders
\* afterwards.
execute_buy_order(cfg, active, pending, sym, account, quote_ok, order_ok) ==
    IF account = None \/ ~quote_ok THEN pending
    ELSE IF buy_notional(cfg, account, active) = NoPrice THEN pending
    ELSE IF account.buying_power = 0
    THEN Put(pending, sym, Order("buy", TRUE, "strategy"))
    ELSE IF ~order_ok THEN pending
    ELSE Put(pending, sym, Order("buy", FALSE, "strategy"))

\* _trading_loop, the for-loop over the selected symbols: what is left to
\* visit after _process_symbol ran under safe_execute, whether it raised or
\* not.
after_process_symbolAbort(symbols, raised) ==
    IF raised THEN << >> ELSE Tail(symbols)

after_process_symbol(symbols, raised) == Tail(symbols)

\* MainWindow._trading_loop, _process_symbol for one selected symbol.
ProcessStep ==
    /\ loop_pc = "process"
    /\ todo # << >>
    /\ is_trading
    /\ analysis_count' = count_analysis(settings, analysis_count)
    /\ todo' = after_process_symbol(todo, analyze_raises(settings, analysis_count))
    /\ LET sym == Head(todo)
           ev(raised, bought) == [kind |-> "process", symbol |-> sym,
                                  raised |-> raised, bought |-> bought,
                                  callbacks |-> order_callbacks(bought)]
       IN  IF analyze_raises(settings, analysis_count)
           THEN /\ last_event' = ev(TRUE, FALSE)
                /\ UNCHANGED <<pending_orders, last_gen>>
           ELSE
           \/ \* analyze_symbol returns None
              /\ last_event' = ev(FALSE, FALSE)
              /\ UNCHANGED <<pending_orders, last_gen>>
           \/ \E sd \in Snapshots(sym) :
                 LET signals == generate_signals(sd, active_positions,
                                                 pending_orders, params)
                 IN  /\ last_gen' =
                          [held |-> Has(active_positions, sym) \/ Has(pending_orders, sym),
                           buyable |-> /\ sd.ti # None
                                       /\ is_favorable_market_condition(sd)
                                       /\ BuyScoreMet(sd, params),
                           signals |-> [i \in 1..Len(signals) |-> signals[i][1]]]
                     /\ IF signals = << >>
                        THEN /\ last_event' = ev(FALSE, FALSE)
                             /\ UNCHANGED pending_orders
                        ELSE \E account \in Accounts \cup {None},
                                answer \in {<<FALSE, FALSE>>, <<TRUE, FALSE>>,
                                            <<TRUE, TRUE>>} :
                             /\ pending_orders' =
                                 execute_buy_order(settings, active_positions,
                                     pending_orders, sym, account, answer[1], answer[2])
                             /\ last_event' = ev(FALSE, pending_orders' # pending_orders)
    /\ UNCHANGED <<settings, params, active_positions, position_high_prices, loop_pc,
                   cycle_closed, is_trading, gvars>>

\* _trading_loop, "if not self.is_trading: break" at the head of the for-loop
\* over the selected symbols.
BreakStep ==
    /\ loop_pc = "process"
    /\ todo # << >>
    /\ ~is_trading
    /\ todo' = << >>
    /\ last_event' = None
    /\ UNCHANGED <<settings, params, active_positions, pending_orders,
                   position_high_prices, loop_pc, last_gen, analysis_count,
                   cycle_closed, is_trading, gvars>>

\* MainWindow._stop_trading from the GUI thread.
StopTrading ==
    /\ is_trading
    /\ loop_pc \notin {"off", "init", "idle", "bought"}
    /\ is_trading' = FALSE
    /\ UNCHANGED <<settings, params, active_positions, pending_orders,
                   position_high_prices, loop_pc, todo, last_gen, analysis_count,
                   last_event, cycle_closed, gvars>>

Init == SInit

Next == NextPhase \/ PendingStep \/ ExitStep \/ ProcessStep

Spec == Init /\ [][Next]_vars

\* The same loop for a strategy in fixed-capital mode that starts with nothing
\* at the broker: every position it holds comes from its own buy orders.
CapInit ==
    /\ Init
    /\ settings.fixed_trade_amount_enabled
    /\ active_positions = << >>
    /\ pending_orders = << >>

CapSpec == CapInit /\ [][Next]_vars

\* The trading loop of a strategy whose parameters are not refreshed
\* (enable_dynamic_parameters off), from every recovered state.
LifeInit == Init /\ ~settings.enable_dynamic_parameters

LifeSpec == LifeInit /\ [][Next]_vars

\* The trading loop of a strategy that refreshes its parameters every
\* parameter_refresh_frequency analyses and starts with nothing at the broker.
RefreshInit ==
    /\ Init
    /\ settings.enable_dynamic_parameters
    /\ active_positions = << >>
    /\ pending_orders = << >>

RefreshSpec == RefreshInit /\ [][Next]_vars

\* analyze_symbol on its own.  In AnalyzeSpec last_event carries the
\* strategy's cache between the calls: price_data_cache (symbol -> snapshot,
\* None if absent) and last_update (symbol -> seconds since the entry was
\* written, NoTime if absent), next to what the latest call did.
cache_ttl == 60

\* Entries of age cache_ttl or more are alike: all stale.
Older(age, elapsed) ==
    IF age = NoTime THEN NoTime
    ELSE IF age + elapsed >= cache_ttl THEN cache_ttl ELSE age + elapsed

\* "symbol in self.last_update and now - self.last_update[symbol] < 1 minute"
is_fresh(last_update, sym) ==
    last_update[sym] # NoTime /\ last_update[sym] < cache_ttl

\* "if bars is None or len(bars) < 20"
min_bars == 20

\* What the market-data port answers to one analysis: the number of bars
\* (one short of min_bars also stands for fewer, and for no DataFrame at all)
\* and the snapshot the bars and the quote make, None without a quote.
Feeds(sym) ==
    { [bars |-> b, sd |-> sd] :
        b \in {min_bars - 1, min_bars},
        sd \in {None} \cup { x \in Snapshots(sym) :
                                x.ti # None /\ x.quote.bid = 9800 } }

\* ScalpingStrategy.analyze_symbol called with the cache (cache, last_update)
\* as it is at the time of the call: what it returns, whether it raised,
\* whether it called get_bars, and the cache afterwards.
analyze_symbolAnyBars(cfg, n, cache, last_update, sym, feed) ==
    IF analyze_raises(cfg, n)
    THEN [raised |-> TRUE, returned |-> None, fetched |-> FALSE,
          price_data_cache |-> cache, last_update |-> last_update]
    ELSE IF is_fresh(last_update, sym)
    THEN [raised |-> FALSE, returned |-> cache[sym], fetched |-> FALSE,
          price_data_cache |-> cache, last_update |-> last_update]
    ELSE IF feed.sd = None
    THEN [raised |-> FALSE, returned |-> None, fetched |-> TRUE,
          price_data_cache |-> cache, last_update |-> last_update]
    ELSE [raised |-> FALSE, returned |-> feed.sd, fetched |-> TRUE,
          price_data_cache |-> [cache EXCEPT ![sym] = feed.sd],
          last_update |-> [last_update EXCEPT ![sym] = 0]]

analyze_symbol(cfg, n, cache, last_update, sym, feed) ==
    IF analyze_raises(cfg, n)
    THEN [raised |-> TRUE, returned |-> None, fetched |-> FALSE,
          price_data_cache |-> cache, last_update |-> last_update]
    ELSE IF is_fresh(last_update, sym)
    THEN [raised |-> FALSE, returned |-> cache[sym], fetched |-> FALSE,
          price_data_cache |-> cache, last_update |-> last_update]
    ELSE IF feed.bars < min_bars \/ feed.sd = None
    THEN [raised |-> FALSE, returned |-> None, fetched |-> TRUE,
          price_data_cache |-> cache, last_update |-> last_update]
    ELSE [raised |-> FALSE, returned |-> feed.sd, fetched |-> TRUE,
          price_data_cache |-> [cache EXCEPT ![sym] = feed.sd],
          last_update |-> [last_update EXCEPT ![sym] = 0]]

AnalyzeInit ==
    /\ settings \in Configs
    /\ \E account \in Accounts :
          params = update_trading_mode_parameters(settings.trading_mode,
                      IF settings.custom_portfolio_value_enabled
                      THEN settings.custom_portfolio_value
                      ELSE account.portfolio_value)
    /\ active_positions = << >>
    /\ pending_orders = << >>
    /\ position_high_prices = NoHigh
    /\ loop_pc = "analyze"
    /\ todo = << >>
    /\ last_gen = None
    /\ analysis_count = 0
    /\ last_event = [kind |-> "cache",
                     price_data_cache |-> [sym \in Symbols |-> None],
                     last_update |-> [sym \in Symbols |-> NoTime]]
    /\ cycle_closed = {}
    /\ is_trading = TRUE
    /\ g_fn = "op"
    /\ GuardIdle

\* Some time passes, then analyze_symbol(sym) is called.
AnalyzeCall ==
    /\ loop_pc = "analyze"
    /\ analysis_count' = count_analysis(settings, analysis_count)
    /\ \E sym \in Symbols, elapsed \in {30, 60} :
          LET cache == last_event.price_data_cache
              now   == [x \in Symbols |-> Older(last_event.last_update[x], elapsed)]
          IN  \E feed \in Feeds(sym) :
                 LET r == analyze_symbol(settings, analysis_count, cache, now, sym, feed)
                 IN  last_event' =
                        [kind |-> "analyze", symbol |-> sym,
                         was_fresh |-> now[sym] # NoTime /\ now[sym] < cache_ttl,
                         cached |-> cache[sym],
                         raised |-> r.raised, returned |-> r.returned,
                         fetched |-> r.fetched,
                         price_data_cache |-> r.price_data_cache,
                         last_update |-> r.last_update]
    /\ UNCHANGED <<settings, params, active_positions, pending_orders,
                   position_high_prices, loop_pc, todo, last_gen, cycle_closed,
                   is_trading, gvars>>

\* Some time passes, then _trading_loop runs _process_symbol(sym): analysis,
\* signals, trades.  The specification follows the cache up to one such run.
ProcessCall ==
    /\ loop_pc = "analyze"
    /\ loop_pc' = "processed"
    /\ analysis_count' = count_analysis(settings, analysis_count)
    /\ \E sym \in Symbols, elapsed \in {30, 60} :
          LET cache == last_event.price_data_cache
              now   == [x \in Symbols |-> Older(last_event.last_update[x], elapsed)]
          IN  \E feed \in Feeds(sym) :
                 LET r == analyze_symbol(settings, analysis_count, cache, now, sym, feed)
                     signals == IF r.raised \/ r.returned = None THEN << >>
                                ELSE generate_signals(r.returned, active_positions,
                                                      pending_orders, params)
                 IN  /\ IF signals = << >>
                        THEN UNCHANGED pending_orders
                        ELSE \E account \in Accounts \cup {None},
                                answer \in {<<FALSE, FALSE>>, <<TRUE, FALSE>>,
                                            <<TRUE, TRUE>>} :
                                pending_orders' =
                                   execute_buy_order(settings, active_positions,
                                       pending_orders, sym, account, answer[1],
                                       answer[2])
                     /\ last_event' =
                           [kind |-> "process_symbol", symbol |-> sym,
                            was_fresh |-> is_fresh(now, sym),
                            cached |-> cache[sym], age |-> now[sym],
                            bars |-> feed.bars, quote_ok |-> feed.sd # None,
                            raised |-> r.raised, returned |-> r.returned,
                            fetched |-> r.fetched,
                            signals |-> [i \in 1..Len(signals) |-> signals[i][1]],
                            ordered |-> pending_orders' # pending_orders,
                            price_data_cache |-> r.price_data_cache,
                            last_update |-> r.last_update]
    /\ UNCHANGED <<settings, params, active_positions, position_high_prices,
                   todo, last_gen, cycle_closed, is_trading, gvars>>

AnalyzeNext == AnalyzeCall \/ ProcessCall

AnalyzeSpec == AnalyzeInit /\ [][AnalyzeNext]_vars

\* generate_signals on its own, for every trading mode and a range of
\* snapshots on both sides of each threshold; an indicator the bars could not
\* produce is 0, as is an RSI of exactly 0.0, and both are falsy to the code.
SignalConfigs ==
    { [trading_mode |-> m, fixed_trade_amount_enabled |-> FALSE,
       fixed_trade_amount |-> 10000, custom_portfolio_value_enabled |-> TRUE,
       custom_portfolio_value |-> 100000, enable_dynamic_parameters |-> FALSE] :
      m \in Modes }

SignalQuotes ==
    { [bid |-> 9800, ask |-> 9800], [bid |-> 9800, ask |-> 9900],
      [bid |-> 10000, ask |-> 10000], [bid |-> 10300, ask |-> 10300],
      [bid |-> 10600, ask |-> 10600] }

SignalIndicators ==
    { [rsi |-> r, sma_20 |-> 10000, bollinger_upper |-> b[1],
       bollinger_middle |-> 10000, bollinger_lower |-> b[2]] :
      r \in {0, 10, 28, 33, 38, 50, 85},
      b \in {<<10250, 9750>>, <<10800, 9200>>, <<11300, 8700>>} }

SignalSnapshots(sym) ==
    { [symbol |-> sym, quote |-> q, ti |-> t, support_levels |-> sl,
       resistance_levels |-> rl] :
      q \in SignalQuotes \cup {None}, t \in SignalIndicators \cup {None},
      sl \in {{}, {9750}}, rl \in {{}, {10350}} }

SignalInit ==
    /\ settings \in SignalConfigs
    /\ params = update_trading_mode_parameters(settings.trading_mode,
                                               settings.custom_portfolio_value)
    /\ active_positions \in { << >>, << [k |-> "AAPL", v |-> Trade("buy", 1, 10000)] >> }
    /\ pending_orders \in { << >>, << [k |-> "MSFT", v |-> Order("buy", FALSE, "strategy")] >> }
    /\ position_high_prices = NoHigh
    /\ loop_pc = "idle"
    /\ todo = << >>
    /\ last_gen = None
    /\ analysis_count = 0
    /\ last_event = None
    /\ cycle_closed = {}
    /\ is_trading = TRUE
    /\ g_fn = "op"
    /\ GuardIdle

\* strategy.generate_signals(stock_data)
GenerateCall ==
    /\ loop_pc = "idle"
    /\ loop_pc' = "generated"
    /\ \E sym \in Symbols :
          \E sd \in SignalSnapshots(sym) :
             last_event' = [kind |-> "signals", sd |-> sd,
                            signals |-> generate_signals(sd, active_positions,
                                                         pending_orders, params)]
    /\ UNCHANGED <<settings, params, active_positions, pending_orders,
                   position_high_prices, todo, last_gen, analysis_count,
                   cycle_closed, is_trading, gvars>>

SignalNext == GenerateCall

SignalSpec == SignalInit /\ [][SignalNext]_vars

\* check_exit_conditions on its own, for a position entered at $100.00, in
\* every trading mode, with the highest price recorded so far absent, at the
\* entry or 3% above it.
ExitEntry == 10000

ExitQuotes ==
    { [bid |-> b, ask |-> b] :
        b \in {9800, 9900, 10020, 10100, 10197, 10200, 10300, 10400} }

ExitIndicators ==
    { [rsi |-> r, sma_20 |-> 10000, bollinger_upper |-> u,
       bollinger_middle |-> 10000, bollinger_lower |-> 9750] :
      r \in {0, 50, 62, 72}, u \in {10250, 11000} }

ExitSnapshots(sym) ==
    { [symbol |-> sym, quote |-> q, ti |-> t, support_levels |-> {9750},
       resistance_levels |-> rl] :
      q \in ExitQuotes \cup {None}, t \in ExitIndicators \cup {None},
      rl \in {{}, {10350}} }

ExitInit ==
    /\ settings \in SignalConfigs
    /\ params = update_trading_mode_parameters(settings.trading_mode,
                                               settings.custom_portfolio_value)
    /\ active_positions = << [k |-> "AAPL", v |-> Trade("buy", 1, ExitEntry)] >>
    /\ pending_orders = << >>
    /\ position_high_prices \in { [NoHigh EXCEPT !["AAPL"] = h] :
                                     h \in {NoPrice, 10000, 10300} }
    /\ loop_pc = "idle"
    /\ todo = << >>
    /\ last_gen = None
    /\ analysis_count = 0
    /\ last_event = None
    /\ cycle_closed = {}
    /\ is_trading = TRUE
    /\ g_fn = "op"
    /\ GuardIdle

\* strategy.check_exit_conditions("AAPL") with the snapshot analyze_symbol
\* returned.
ExitCall ==
    /\ loop_pc = "idle"
    /\ loop_pc' = "checked"
    /\ \E sd \in ExitSnapshots("AAPL") :
          LET x == check_exit_conditions(sd, Get(active_positions, "AAPL").price,
                                         position_high_prices["AAPL"], params)
          IN  /\ position_high_prices' = [position_high_prices EXCEPT !["AAPL"] = x.high]
              /\ last_event' = [kind |-> "exit_check", sd |-> sd,
                                high_before |-> position_high_prices["AAPL"],
                                reason |-> x.reason]
    /\ UNCHANGED <<settings, params, active_positions, pending_orders, todo,
                   last_gen, analysis_count, cycle_closed, is_trading, gvars>>

ExitNext == ExitCall

ExitSpec == ExitInit /\ [][ExitNext]_vars

\* The trading loop together with the GUI thread that may stop trading.  The
\* loop thread keeps taking steps: every call it makes returns or raises
\* after its bounded retries.
StopNext == Next \/ BreakStep \/ StopTrading

StopSpec == CapInit /\ [][StopNext]_vars /\ WF_vars(Next \/ BreakStep)

\* Startup recovery on its own, against every broker state: long, short and
\* zero-quantity positions, open orders of every side in a status recovery
\* takes over or in another one ("held").
StartupPositions ==
    [Symbols -> {None, [qty |-> 1, avg |-> 10000], [qty |-> -1, avg |-> 10000],
                 [qty |-> 0, avg |-> 10000]}]

StartupOrders ==
    [Symbols -> {None} \cup { BrokerOrder(side, st) :
                                side \in {"buy", "sell"},
                                st \in {"new", "accepted", "held"} }]

RecoverInit ==
    /\ settings \in Configs
    /\ \E account \in Accounts :
          params = update_trading_mode_parameters(settings.trading_mode,
                      IF settings.custom_portfolio_value_enabled
                      THEN settings.custom_portfolio_value
                      ELSE account.portfolio_value)
    /\ active_positions = << >>
    /\ pending_orders = << >>
    /\ position_high_prices = NoHigh
    /\ loop_pc = "init"
    /\ todo = << >>
    /\ last_gen = None
    /\ analysis_count = 0
    /\ last_event = None
    /\ cycle_closed = {}
    /\ is_trading = TRUE
    /\ g_fn = "op"
    /\ GuardIdle

\* ScalpingStrategy.__init__ calling _recover_existing_state.
Recover ==
    /\ loop_pc = "init"
    /\ loop_pc' = "update"
    /\ \E positions \in StartupPositions, orders \in StartupOrders,
          fail \in RecoveryFailures,
          quote_bid \in {[sym \in Symbols |-> b] : b \in {NoPrice, 10300}} :
          LET r == recover_existing_state(positions, orders, quote_bid, fail)
          IN  /\ active_positions' = r.active
              /\ pending_orders' = r.pending
              /\ position_high_prices' = r.high
              /\ last_event' = [kind |-> "recover", positions |-> positions,
                                orders |-> orders, fail |-> fail]
    /\ UNCHANGED <<settings, params, todo, last_gen, analysis_count, cycle_closed,
                   is_trading, gvars>>

RecoverNext == Recover

RecoverSpec == RecoverInit /\ [][RecoverNext]_vars

\* execute_trade(symbol, "BUY", reason) on its own, for a range of settings
\* and of positions already held.
SizerConfigs ==
    { [trading_mode |-> "aggressive", fixed_trade_amount_enabled |-> f,
       fixed_trade_amount |-> a, custom_portfolio_value_enabled |-> TRUE,
       custom_portfolio_value |-> c, enable_dynamic_parameters |-> FALSE] :
      f \in BOOLEAN, a \in {50, 1000, 10000}, c \in {5000, 10000, 15000} }

SizerPositions ==
    { << >>,
      << [k |-> "AAPL", v |-> Trade("buy", 1, 9500)] >>,
      << [k |-> "AAPL", v |-> Trade("buy", 1, 10000)] >> }

SizerInit ==
    /\ settings \in SizerConfigs
    /\ params = update_trading_mode_parameters(settings.trading_mode,
                                               settings.custom_portfolio_value)
    /\ active_positions \in SizerPositions
    /\ pending_orders = << >>
    /\ position_high_prices = NoHigh
    /\ loop_pc = "idle"
    /\ todo = << >>
    /\ last_gen = None
    /\ analysis_count = 0
    /\ last_event = None
    /\ cycle_closed = {}
    /\ is_trading = TRUE
    /\ g_fn = "op"
    /\ GuardIdle

BuyCall ==
    /\ loop_pc = "idle"
    /\ loop_pc' = "bought"
    /\ \E account \in Accounts \cup {None},
          answer \in {<<FALSE, FALSE>>, <<TRUE, FALSE>>, <<TRUE, TRUE>>} :
          /\ pending_orders' =
                 execute_buy_order(settings, active_positions, pending_orders,
                                   "MSFT", account, answer[1], answer[2])
          /\ last_event' = [kind |-> "buy", symbol |-> "MSFT", account |-> account,
                            quote_ok |-> answer[1], order_ok |-> answer[2]]
    /\ UNCHANGED <<settings, params, active_positions, position_high_prices, todo,
                   last_gen, analysis_count, cycle_closed, is_trading, gvars>>

SizerNext == BuyCall

SizerSpec == SizerInit /\ [][SizerNext]_vars

(***************************************************************************)
(* PROPERTIES OF THE RESILIENCE LAYER (checked under GuardSpec)            *)
(***************************************************************************)

ClientFns == {"get_account", "get_bars"}

Finished == g_pc = "idle" /\ result # "none"

Failed == Finished /\ result # "ok"

\* C3 - Once failure_threshold consecutive invocations of the wrapped
\* operation have failed (counted since the circuit was last closed), a call
\* made while no more than timeout seconds have passed since the last failure
\* fails fast: it raises the circuit-open error and the operation is not run.
C3_FailFastWhileOpen ==
    [][ (g_pc = "call" /\ streak >= failure_threshold /\ last_failure_time <= timeout)
        => (/\ n_invoked' = n_invoked
            /\ probe' = "fail_fast"
            /\ result' = "TradingBotError"
            /\ g_pc' = "idle"
            /\ failure_count' = failure_count
            /\ circuit_open') ]_vars

C3_Witness ==
    /\ Finished
    /\ probe = "fail_fast"
    /\ streak >= failure_threshold
    /\ n_calls = 1
    /\ n_invoked = 0
    /\ last_failure_time = timeout

\* C4 - With the circuit open, the first call made more than timeout seconds
\* after the last recorded failure closes the circuit, resets the failure count
\* to 0 and runs the wrapped operation (so the count afterwards is 0 after a
\* success and 1 after a failure, and the circuit stays closed).
C4_ClosesAfterTimeout ==
    [][ (g_pc = "call" /\ circuit_open /\ last_failure_time > timeout)
        => (/\ n_invoked' = n_invoked + 1
            /\ probe' = "reset_invoked"
            /\ ~circuit_open'
            /\ failure_count' = (IF result' = "ok" THEN 0 ELSE 1)) ]_vars

C4_Witness ==
    /\ Finished
    /\ probe = "reset_invoked"
    /\ n_invoked = 1
    /\ ~circuit_open
    /\ failure_count = 1

\* C5 - A success resets the failure count to 0, so the circuit is open only
\* when at least failure_threshold invocations have failed since the last
\* successful one.
C5_SuccessResetsCount ==
    /\ (run_fails = 0 => failure_count = 0)
    /\ (circuit_open => run_fails >= failure_threshold)
    /\ failure_count <= run_fails

C5_Witness ==
    /\ Finished
    /\ result = "ok"
    /\ n_invoked >= 2
    /\ failure_count = 0
    /\ run_fails = 0
    /\ last_failure_time # NoTime

\* C6 (as claimed) - When the operation fails with a retryable error on every
\* attempt, retry invokes it at most max_retries times.
C6_AtMostMaxRetriesCalls ==
    (Finished /\ Retryable(result)) => n_calls <= max_retries

\* C6 (amended) - When the operation fails with a retryable error on every
\* attempt, retry invokes it max_retries + 1 times (one first attempt and
\* max_retries retries), sleeping between attempts only, and then re-raises the
\* last error the operation raised.
C6_RetriesThenReraises ==
    (Finished /\ result \in APIErrors \cup {"ConnectionError"})
        => (/\ n_calls = max_retries + 1
            /\ n_invoked = max_retries + 1
            /\ Len(sleeps) = max_retries
            /\ result = last_raised)

C6_Witness ==
    /\ Finished
    /\ g_fn = "op"
    /\ result = "ConnectionError"
    /\ first_raw = "APIError500"
    /\ n_invoked = max_retries + 1

\* C7 - An error that is not of a retryable kind leaves retry at once: when the
\* first call raised one, the call is over with that error after exactly one
\* invocation and no sleep; an authentication (401) or permission (403) answer
\* to a guarded call is such an error and costs no cooldown either.
NonRetryableKinds == {"HTTPError", "ValueError", "ConfigurationError",
                      "TradingBotError", "APIConnectionError", "RateLimitError",
                      "MarketDataError"}

C7_NonRetryablePropagates ==
    /\ (first_raised \in NonRetryableKinds
            => (/\ g_pc = "idle"
                /\ result = first_raised
                /\ n_calls = 1
                /\ n_invoked = (IF probe = "fail_fast" THEN 0 ELSE 1)
                /\ sleeps = << >>))
    /\ (g_fn = "get_account" /\ first_raw \in {"APIError401", "APIError403"}
            => (/\ first_raised = "ConfigurationError"
                /\ n_invoked = 1
                /\ cooldown = 0))
    /\ (g_pc = "sleep" => last_raised \notin NonRetryableKinds)

C7_Witness ==
    /\ Finished
    /\ g_fn = "get_account"
    /\ first_raw = "APIError401"
    /\ result = "ConfigurationError"
    /\ n_invoked = 1
    /\ sleeps = << >>

\* C8 (as claimed) - A guarded client call whose underlying request fails with
\* a connection or server error is attempted again by the retry layer before
\* the failure reaches the caller.
C8_ConnectionErrorIsRetried ==
    (Failed /\ g_fn \in ClientFns /\ first_raw \in {"ConnectionError", "APIError500"})
        => n_calls >= 2

\* C9 (as claimed) - When a guarded call has failed with connection / server
\* errors until retry gave up, the circuit of that operation is open.
C9_OpenAfterExhaustedRetries ==
    (Failed /\ g_fn \in ClientFns /\ first_raw \in {"ConnectionError", "APIError500"})
        => circuit_open

\* C9 (amended) - Every failed attempt of a guarded call counts one failure on
\* the circuit of that operation; after a failed call the circuit is open, so
\* that the next call fails fast, exactly when failure_threshold attempts have
\* failed since the circuit was last closed - one failing call alone does not
\* open it.
C9_OpenAtThreshold ==
    (Failed /\ g_fn \in ClientFns)
        => (/\ circuit_open <=> streak >= failure_threshold
            /\ failure_count = streak
            /\ (probe # "fail_fast" /\ n_calls = 1 /\ streak < failure_threshold
                    => ~circuit_open))

C9_Witness ==
    /\ Failed
    /\ g_fn \in ClientFns
    /\ first_raw \in {"ConnectionError", "APIError500"}
    /\ circuit_open
    /\ streak = failure_threshold
    /\ probe = "invoked"

\* C10 (as claimed) - When the broker answers a guarded call with HTTP 429 the
\* caller sleeps the rate-limit cooldown and the call is then attempted again.
C10_RateLimitSleepsThenRetries ==
    (Finished /\ g_fn \in ClientFns /\ first_raw = "APIError429")
        => (cooldown >= rate_limit_delay /\ n_calls >= 2)

(***************************************************************************)
(* PROPERTIES OF THE STRATEGY'S ORDER AND POSITION MAPS (Spec)              *)
(***************************************************************************)

\* C1 as stated: after recovery and at every point of the trading loop, no
\* symbol is at once in pending_orders and in active_positions.
C1_NoSymbolInBothMaps ==
    \A sym \in Symbols : ~(Has(pending_orders, sym) /\ Has(active_positions, sym))

\* C1: a symbol is in both maps only while the pending order is a sell order
\* or an order that startup recovery loaded; a buy order the strategy
\* submitted is never pending for a symbol that has an active position.
C1_OverlapOnlySellOrRecovered ==
    \A sym \in Symbols :
        Has(pending_orders, sym) /\ Has(active_positions, sym)
            => \/ Get(pending_orders, sym).side = "sell"
               \/ Get(pending_orders, sym).origin = "recovered"

\* An exit the strategy submitted is pending while its position is still
\* active, and the other symbol has a position and no pending order.
C1_Witness ==
    \E sym \in Symbols, other \in Symbols :
        /\ sym # other
        /\ Has(active_positions, sym)
        /\ Has(pending_orders, sym)
        /\ Get(pending_orders, sym) = Order("sell", FALSE, "strategy")
        /\ Has(active_positions, other)
        /\ ~Has(pending_orders, other)

\* C2: generate_signals returns the empty list for a symbol that has an
\* active position or a pending order.
C2_NoSignalsWhenHeld ==
    last_gen # None => (last_gen.held => last_gen.signals = << >>)

\* generate_signals was called for a held symbol with a snapshot whose score
\* would have been a BUY, and it returned nothing.
C2_Witness ==
    /\ last_gen # None
    /\ last_gen.held
    /\ last_gen.buyable
    /\ last_gen.signals = << >>

(***************************************************************************)
(* PROPERTIES OF POSITION SIZING (CapSpec)                                  *)
(***************************************************************************)

\* The ceiling C of fixed-capital mode: the portfolio value _execute_buy_order
\* uses as fixed_total_capital (the custom value of the settings).
Ceiling == settings.custom_portfolio_value

Remaining == Ceiling - calculate_allocated_capital(active_positions)

EventIs(kind) == last_event # None /\ last_event.kind = kind

\* C11: in fixed-capital mode the capital allocated to the active filled buy
\* positions, the sum of quantity x entry price, never exceeds the ceiling C.
C11_AllocatedWithinCeiling ==
    settings.fixed_trade_amount_enabled
        => calculate_allocated_capital(active_positions) <= Ceiling

C13_FilledBuyBecomesPosition ==
    (/\ EventIs("order")
     /\ last_event.status = "filled"
     /\ last_event.side = "buy")
        => /\ Has(active_positions, last_event.symbol)
           /\ Get(active_positions, last_event.symbol) =
                  Trade("buy", last_event.quantity, last_event.fill_price)
           /\ ~Has(pending_orders, last_event.symbol)

\* A buy fill at $100.10 has just been reconciled for AAPL, which now holds
\* the record at that price, while MSFT still has a pending order.
C13_Witness ==
    /\ EventIs("order")
    /\ last_event.status = "filled"
    /\ last_event.side = "buy"
    /\ last_event.symbol = "AAPL"
    /\ last_event.fill_price = 10010
    /\ Has(active_positions, "AAPL")
    /\ Get(active_positions, "AAPL").price = 10010
    /\ Has(pending_orders, "MSFT")
    /\ ~Has(pending_orders, "AAPL")

\* C14: when update_positions sees a pending sell order reported filled, the
\* realized P&L of the closed position is (fill price - entry price) x
\* quantity, and afterwards the symbol is in neither map.
C14_FilledSellClosesPosition ==
    (/\ EventIs("order")
     /\ last_event.status = "filled"
     /\ last_event.side = "sell")
        => /\ ~Has(active_positions, last_event.symbol)
           /\ ~Has(pending_orders, last_event.symbol)
           /\ last_event.closes =>
                 last_event.pnl = (last_event.fill_price - last_event.entry_price)
                                     * last_event.quantity

\* A sell fill at $100.10 has just closed a position entered at $100.00:
\* 10 cents realized on one share.
C14_Witness ==
    /\ EventIs("order")
    /\ last_event.status = "filled"
    /\ last_event.side = "sell"
    /\ last_event.closes
    /\ last_event.entry_price = 10000
    /\ last_event.fill_price = 10010
    /\ last_event.pnl = 10
    /\ ~Has(active_positions, last_event.symbol)

\* C15: when a pending order is reported cancelled or rejected, update_positions
\* removes the symbol's pending entry and changes neither the active-position
\* map nor the highest-price tracker.
C15_CancelClearsPendingOnly ==
    [][ (/\ last_event' # None
         /\ last_event'.kind = "order"
         /\ last_event'.status \in {"canceled", "cancelled", "rejected"})
           => /\ pending_orders' = Del(pending_orders, last_event'.symbol)
              /\ active_positions' = active_positions
              /\ position_high_prices' = position_high_prices ]_vars

(***************************************************************************)
(* PROPERTIES OF STARTUP RECOVERY (RecoverSpec)                            *)
(***************************************************************************)

C17_NoCloseAndOpenInOneCycle ==
    (EventIs("process") /\ last_event.bought) => last_event.symbol \notin cycle_closed

\* C18: when processing a symbol raises, the for-loop over the selected
\* symbols goes on with the symbols after it, and when the for-loop is done
\* the loop goes back to the start of its next iteration.
C18_SymbolErrorDoesNotAbortCycle ==
    [][ /\ (/\ last_event' # None
            /\ last_event'.kind = "process"
            /\ last_event'.raised)
              => /\ loop_pc' = "process"
                 /\ todo' = Tail(todo)
        /\ (loop_pc = "process" /\ todo = << >>) => loop_pc' = "update" ]_vars

\* Processing AAPL has just raised and MSFT is still to be processed in the
\* same iteration.
C18_Witness ==
    /\ EventIs("process")
    /\ last_event.raised
    /\ last_event.symbol = "AAPL"
    /\ loop_pc = "process"
    /\ todo = <<"MSFT">>

\* C19: once trading is stopped the loop starts no new iteration; the loop
\* thread ends only at the loop's own "while self.is_trading" test, never in
\* the middle of update_positions or of a symbol, and it does end.
C19_StopHaltsLoop ==
    /\ [][ /\ ~is_trading => ~(loop_pc = "update" /\ loop_pc' = "pending")
           /\ (loop_pc # "stopped" /\ loop_pc' = "stopped")
                 => (loop_pc = "update" /\ ~is_trading)
           /\ (~is_trading /\ loop_pc \in {"pending", "exits"})
                 => loop_pc' \in {"pending", "exits", "process"} ]_vars
    /\ (~is_trading ~> loop_pc = "stopped")

\* Trading was stopped while an order was pending and the loop thread has
\* ended.
C19_Witness ==
    /\ ~is_trading
    /\ loop_pc = "stopped"
    /\ pending_orders # << >>

(***************************************************************************)
(* PROPERTIES OF THE MARKET-DATA CACHE (AnalyzeSpec)                       *)
(***************************************************************************)

\* C20: analyze_symbol returns the cached snapshot of the symbol without
\* calling the market-data port whenever that snapshot is less than one
\* minute old; otherwise it fetches bars and quote again and the snapshot
\* they make replaces the cache entry.
C20_FreshCacheIsReturned ==
    EventIs("analyze") =>
        IF last_event.was_fresh
        THEN /\ ~last_event.raised
             /\ ~last_event.fetched
             /\ last_event.returned = last_event.cached
        ELSE /\ last_event.fetched
             /\ last_event.returned # None =>
                   /\ last_event.price_data_cache[last_event.symbol]
                         = last_event.returned
                   /\ last_event.last_update[last_event.symbol] = 0

\* C21: when an analysis fetches fewer than 20 bars, or gets no quote, it
\* returns no snapshot, leaves the symbol's cache entry and its timestamp as
\* they were, and _process_symbol generates no signal and submits no order.
C21_DataUnavailableLeavesNoTrace ==
    (/\ EventIs("process_symbol")
     /\ last_event.fetched
     /\ (last_event.bars < min_bars \/ ~last_event.quote_ok))
        => /\ last_event.returned = None
           /\ last_event.price_data_cache[last_event.symbol] = last_event.cached
           /\ last_event.last_update[last_event.symbol] = last_event.age
           /\ last_event.signals = << >>
           /\ ~last_event.ordered

\* 19 bars came back for a symbol whose cached snapshot had gone stale, with
\* a quote that would have scored; the stale entry is still there.
C21_Witness ==
    /\ EventIs("process_symbol")
    /\ last_event.fetched
    /\ last_event.bars = min_bars - 1
    /\ last_event.quote_ok
    /\ last_event.cached # None
    /\ last_event.age = cache_ttl
    /\ last_event.returned = None
    /\ last_event.price_data_cache[last_event.symbol] = last_event.cached

(***************************************************************************)
(* PROPERTIES OF SIGNAL GENERATION (SignalSpec)                            *)
(***************************************************************************)

\* The snapshot of the latest generate_signals call is for a symbol with
\* neither a position nor a pending order, has a quote and indicators.
IdleScored ==
    /\ EventIs("signals")
    /\ last_event.sd.quote # None
    /\ last_event.sd.ti # None
    /\ ~Has(active_positions, last_event.sd.symbol)
    /\ ~Has(pending_orders, last_event.sd.symbol)

ModeMinimum ==
    CASE settings.trading_mode = "ultra_safe" -> 4
      [] settings.trading_mode = "conservative" -> 3
      [] settings.trading_mode = "aggressive" -> 2

\* C22: for an idle symbol that passes the gate, generate_signals emits one
\* BUY exactly when at least two entry conditions hold and their weights sum
\* to the mode minimum or more, and the reason names every condition that
\* holds, in order.
C22_BuyIffTwoConditionsAndScore ==
    (IdleScored /\ is_favorable_market_condition(last_event.sd)) =>
        LET cs == BuyConditions(last_event.sd, params)
        IN  IF Len(cs) >= 2 /\ SumScores(cs) >= ModeMinimum
            THEN /\ Len(last_event.signals) = 1
                 /\ last_event.signals[1][1] = "BUY"
                 /\ last_event.signals[1][2] = [i \in 1..Len(cs) |-> cs[i].name]
            ELSE last_event.signals = << >>

\* Conservative mode, two conditions of weight 1 each (RSI approaching
\* oversold, price near SMA20): score 2 is below the minimum 3, no BUY.
C22_Witness ==
    /\ IdleScored
    /\ is_favorable_market_condition(last_event.sd)
    /\ settings.trading_mode = "conservative"
    /\ LET cs == BuyConditions(last_event.sd, params)
       IN  /\ Len(cs) = 2
           /\ cs[1].name = "RSI approaching oversold"
           /\ cs[2].name = "Price near/above SMA20"
           /\ SumScores(cs) = 2
    /\ last_event.signals = << >>

\* C23: no BUY is emitted for a snapshot with Bollinger width / middle above
\* 0.25, RSI above 80 or below 15, spread / bid above 1%, or a price more than
\* 5% away from SMA20.
C23_GateVetoesBuy ==
    (/\ EventIs("signals")
     /\ last_event.sd.quote # None
     /\ last_event.sd.ti # None
     /\ LET t == last_event.sd.ti
            q == last_event.sd.quote
        IN  \/ (t.bollinger_upper - t.bollinger_lower) * 4 > t.bollinger_middle
            \/ t.rsi > 80
            \/ t.rsi < 15
            \/ (q.ask - q.bid) * 100 > q.bid
            \/ Abs(q.bid - t.sma_20) * 20 > t.sma_20)
        => last_event.signals = << >>

(***************************************************************************)
(* PROPERTIES OF THE EXIT RULES (ExitSpec)                                 *)
(***************************************************************************)

\* The rules of the latest check_exit_conditions call with whether each one
\* matches.
LastExitRules ==
    exit_rules(last_event.sd, ExitEntry, position_high_prices["AAPL"], params)

Matching == { i \in 1..Len(LastExitRules) : LastExitRules[i].matches }

\* C24: check_exit_conditions returns the SELL of the earliest rule that
\* matches in the order stop-loss / trailing stop, take-profit, resistance
\* with weakening momentum, RSI overbought, upper Bollinger band, and nothing
\* when no rule matches.
C24_FirstMatchingRuleWins ==
    (EventIs("exit_check") /\ last_event.sd.quote # None) =>
        IF Matching = {} THEN last_event.reason = NoReason
        ELSE last_event.reason = LastExitRules[SetMin(Matching)].name

\* Take-profit, RSI overbought and the upper Bollinger band all match; the
\* reason is the take-profit.
C24_Witness ==
    /\ EventIs("exit_check")
    /\ last_event.sd.quote # None
    /\ LastExitRules[3].matches
    /\ LastExitRules[5].matches
    /\ LastExitRules[6].matches
    /\ ~LastExitRules[1].matches
    /\ last_event.reason = "Dynamic take profit"

\* C25: when the highest price seen since entry H is a gain of at least
\* min_profit_for_trailing, check_exit_conditions returns a SELL at every
\* current price at or below H x (1 - trailing_stop_pct).
C25_TrailingStopSellsBelowHigh ==
    (/\ EventIs("exit_check")
     /\ last_event.sd.quote # None
     /\ LET H == position_high_prices["AAPL"]
        IN  /\ (H - ExitEntry) * 10000 >= params.min_profit_for_trailing * ExitEntry
            /\ last_event.sd.quote.bid * 10000 <= H * (10000 - params.trailing_stop_pct))
        => last_event.reason # NoReason

(***************************************************************************)
(* DYNAMIC POSITION SIZING                                                 *)
(***************************************************************************)

\* _place_buy_order, the account scenarios: the funds the order may draw on
\* (cents).
available_funds(account) ==
    IF account.buying_power >= 100 THEN account.buying_power
    ELSE IF account.cash > 0 THEN account.cash
    ELSE Max2(account.portfolio_value \div 100, 1000)

\* _place_buy_order, dynamic branch: the position value computed from the
\* portfolio value and the mode parameters.
dynamic_position_value(cfg, account) ==
    LET portfolio_value == IF cfg.custom_portfolio_value_enabled
                           THEN cfg.custom_portfolio_value
                           ELSE account.portfolio_value
        mp == get_mode_params(cfg.trading_mode, portfolio_value)
    IN  Min2(Min2((portfolio_value * 5 * mp.position_size_multiplier) \div 100000,
                  mp.max_position_value),
             portfolio_value \div 10)

\* _place_buy_order: the value of the order that is tracked, the notional
\* handed to place_notional_order or the cost of the simulated order when
\* the buying power is zero; NoPrice when the order is refused.
order_notional(cfg, account, active, ask) ==
    LET v == buy_notional(cfg, account, active)
    IN  IF v = NoPrice THEN NoPrice
        ELSE IF account.buying_power = 0
        THEN Max2(1, v \div ask) * ask
        ELSE v

DynConfigs ==
    { [trading_mode |-> m, fixed_trade_amount_enabled |-> FALSE,
       fixed_trade_amount |-> 1000, custom_portfolio_value_enabled |-> e,
       custom_portfolio_value |-> 100000, enable_dynamic_parameters |-> FALSE] :
      m \in Modes, e \in BOOLEAN }

DynAccounts ==
    { [buying_power |-> b, cash |-> c, portfolio_value |-> p] :
      b \in {0, 50, 4600, 6000, 100000}, c \in {-500, 0, 6000},
      p \in {100000, 200000} }

DynAsks == {2000, 10010}

DynInit ==
    /\ settings \in DynConfigs
    /\ params = update_trading_mode_parameters(settings.trading_mode,
                                               settings.custom_portfolio_value)
    /\ active_positions = << >>
    /\ pending_orders = << >>
    /\ position_high_prices = NoHigh
    /\ loop_pc = "idle"
    /\ todo = << >>
    /\ last_gen = None
    /\ analysis_count = 0
    /\ last_event = None
    /\ cycle_closed = {}
    /\ is_trading = TRUE
    /\ g_fn = "op"
    /\ GuardIdle

\* execute_trade(symbol, "BUY", reason) in dynamic sizing mode, for a range of
\* accounts and ask prices.
DynBuyCall ==
    /\ loop_pc = "idle"
    /\ loop_pc' = "bought"
    /\ \E account \in DynAccounts, ask \in DynAsks, order_ok \in BOOLEAN :
          /\ pending_orders' =
                 execute_buy_order(settings, active_positions, pending_orders,
                                   "MSFT", account, TRUE, order_ok)
          /\ last_event' =
                 [kind |-> "dyn_buy", symbol |-> "MSFT", account |-> account,
                  ask |-> ask, order_ok |-> order_ok,
                  available |-> available_funds(account),
                  computed |-> dynamic_position_value(settings, account),
                  notional |-> IF Has(pending_orders', "MSFT")
                               THEN order_notional(settings, account,
                                                   active_positions, ask)
                               ELSE NoPrice]
    /\ UNCHANGED <<settings, params, active_positions, position_high_prices, todo,
                   last_gen, analysis_count, cycle_closed, is_trading, gvars>>

DynNext == DynBuyCall

DynSpec == DynInit /\ [][DynNext]_vars

\* C26: in dynamic sizing mode the notional of every buy order that is
\* submitted or simulated is at most 95% of the funds available to the
\* account.
C26_NotionalWithin95PctOfFunds ==
    (EventIs("dyn_buy") /\ last_event.notional # NoPrice)
        => last_event.notional * 100 <= last_event.available * 95

\* C27: in dynamic sizing mode the notional of every buy order that is
\* submitted or simulated is at most min(5% of the portfolio value times the
\* mode multiplier, the mode's max position value, 10% of the portfolio
\* value).
C27_NotionalWithinComputedCap ==
    (EventIs("dyn_buy") /\ last_event.notional # NoPrice)
        => last_event.notional <= last_event.computed

(***************************************************************************)
(* TRADING-MODE PARAMETER TABLE                                            *)
(***************************************************************************)

\* TradingMode.get_mode_params, the account size tiers (cents).
portfolio_tier(portfolio_value) ==
    IF portfolio_value <= 10000 THEN 1
    ELSE IF portfolio_value <= 50000 THEN 2
    ELSE IF portfolio_value <= 100000 THEN 3
    ELSE IF portfolio_value <= 500000 THEN 4
    ELSE IF portfolio_value <= 2500000 THEN 5 ELSE 6

\* TradingMode.get_mode_params, the "Max $... per trade" of each tier; the
\* tier above $25,000 has none.
tier_ceiling(tier) ==
    CASE tier = 1 -> 1500
      [] tier = 2 -> 5000
      [] tier = 3 -> 10000
      [] tier = 4 -> 50000
      [] tier = 5 -> 250000
      [] OTHER -> NoPrice

ModePortfolios ==
    {0, 100, 5000, 10000, 10001, 30000, 50000, 50001, 100000, 100001, 500000,
     500001, 1000000, 2500000, 2500001, 5000000}

ModeInit ==
    /\ settings \in { [trading_mode |-> m, fixed_trade_amount_enabled |-> FALSE,
                       fixed_trade_amount |-> 1000,
                       custom_portfolio_value_enabled |-> TRUE,
                       custom_portfolio_value |-> pv,
                       enable_dynamic_parameters |-> FALSE] :
                      m \in Modes, pv \in ModePortfolios }
    /\ params = update_trading_mode_parameters(settings.trading_mode,
                                               settings.custom_portfolio_value)
    /\ active_positions = << >>
    /\ pending_orders = << >>
    /\ position_high_prices = NoHigh
    /\ loop_pc = "idle"
    /\ todo = << >>
    /\ last_gen = None
    /\ analysis_count = 0
    /\ last_event = None
    /\ cycle_closed = {}
    /\ is_trading = TRUE
    /\ g_fn = "op"
    /\ GuardIdle

\* ScalpingStrategy.set_trading_mode: the mode is stored and the parameters
\* are taken again from the table for the (custom) portfolio value.
set_trading_mode ==
    \E mode \in Modes :
        /\ settings' = [settings EXCEPT !.trading_mode = mode]
        /\ params' = update_trading_mode_parameters(mode,
                                                    settings.custom_portfolio_value)
        /\ last_event' = [kind |-> "set_trading_mode",
                          was |-> settings.trading_mode, mode |-> mode,
                          portfolio_value |-> settings.custom_portfolio_value,
                          mode_params |->
                              get_mode_params(mode, settings.custom_portfolio_value)]
        /\ UNCHANGED <<active_positions, pending_orders, position_high_prices,
                       loop_pc, todo, last_gen, analysis_count, cycle_closed,
                       is_trading, gvars>>

ModeNext == set_trading_mode

ModeSpec == ModeInit /\ [][ModeNext]_vars

\* C28 as stated: for every mode and every portfolio value the table's
\* max-position-value is at least $1 and at most an absolute ceiling that
\* the table fixes for the tier of the portfolio value.
C28_EveryTierHasCeiling ==
    EventIs("set_trading_mode") =>
        LET tier == portfolio_tier(last_event.portfolio_value)
        IN  /\ last_event.mode_params.max_position_value >= 100
            /\ tier_ceiling(tier) # NoPrice
            /\ last_event.mode_params.max_position_value <= tier_ceiling(tier)

\* C28 amended: the max-position-value is at least $1; up to $25,000 of
\* portfolio value it is at most the ceiling of the tier ($15, $50, $100,
\* $500, $2,500); above $25,000 it has no ceiling and is the mode's
\* percentage of the portfolio value (25%, 40%, 60%).
C28_CeilingUpToTopTier ==
    EventIs("set_trading_mode") =>
        LET pv   == last_event.portfolio_value
            tier == portfolio_tier(pv)
            mpv  == last_event.mode_params.max_position_value
            pct  == BaseParams(last_event.mode).max_position_value_pct
        IN  /\ mpv >= 100
            /\ tier <= 5 => mpv <= tier_ceiling(tier)
            /\ tier = 6 => mpv = (pv * pct) \div 100

\* A portfolio of $25,000 whose percentage value is above the tier's $2,500
\* ceiling and is cut to it.
C28_Witness ==
    /\ EventIs("set_trading_mode")
    /\ last_event.portfolio_value = 2500000
    /\ (last_event.portfolio_value
            * BaseParams(last_event.mode).max_position_value_pct) \div 100 > 250000
    /\ last_event.mode_params.max_position_value = 250000

(***************************************************************************)
(* NOTIFICATIONS                                                           *)
(***************************************************************************)

\* C29: every step that processes a fill or changes the pending or the
\* active state of a symbol (order submitted, order cancelled or rejected,
\* position opened or closed) invokes both the account-changed and the
\* orders-changed callback.
C29_CallbacksOnEveryChange ==
    [][(pending_orders' # pending_orders \/ active_positions' # active_positions)
           => /\ last_event' # None
              /\ \A c \in {"account_update", "order_update"} :
                     \E i \in 1..Len(last_event'.callbacks) :
                         last_event'.callbacks[i] = c]_vars

(***************************************************************************)
(* ALLOCATED CAPITAL                                                       *)
(***************************************************************************)

\* The records active_positions can hold when _calculate_allocated_capital
\* is called: trades of either type and status, entries that are None, and
\* quantities and prices that are None or not numbers.
AllocTrades ==
    { [trade_type |-> tt, quantity |-> q, price |-> p, status |-> st] :
      tt \in {"buy", "sell"}, st \in {"filled", "pending"},
      q \in {NoPrice, Malformed, 5, 10}, p \in {NoPrice, Malformed, 400, 500} }

AllocPositions ==
    { << >> }
    \cup { << [k |-> "AAPL", v |-> a] >> : a \in AllocTrades \cup {None} }
    \cup { << [k |-> "AAPL", v |-> a], [k |-> "MSFT", v |-> b] >> :
           a \in AllocTrades \cup {None},
           b \in {None, [trade_type |-> "buy", quantity |-> 5, price |-> 400,
                         status |-> "filled"],
                  [trade_type |-> "buy", quantity |-> Malformed, price |-> 400,
                   status |-> "filled"],
                  [trade_type |-> "sell", quantity |-> Malformed, price |-> 400,
                   status |-> "filled"]} }

AllocInit ==
    /\ settings \in SizerConfigs
    /\ settings.fixed_trade_amount_enabled
    /\ settings.fixed_trade_amount = 1000
    /\ settings.custom_portfolio_value = 10000
    /\ params = update_trading_mode_parameters(settings.trading_mode,
                                               settings.custom_portfolio_value)
    /\ active_positions \in AllocPositions
    /\ pending_orders = << >>
    /\ position_high_prices = NoHigh
    /\ loop_pc = "idle"
    /\ todo = << >>
    /\ last_gen = None
    /\ analysis_count = 0
    /\ last_event = None
    /\ cycle_closed = {}
    /\ is_trading = TRUE
    /\ g_fn = "op"
    /\ GuardIdle

\* A call of _calculate_allocated_capital on the positions held.
AllocCall ==
    /\ loop_pc = "idle"
    /\ loop_pc' = "allocated"
    /\ last_event' = [kind |-> "allocated",
                      returned |-> calculate_allocated_capital(active_positions)]
    /\ UNCHANGED <<settings, params, active_positions, pending_orders,
                   position_high_prices, todo, last_gen, analysis_count,
                   cycle_closed, is_trading, gvars>>

AllocNext == AllocCall

AllocSpec == AllocInit /\ [][AllocNext]_vars

\* The entries the sum is over: FILLED buys that are not None and have a
\* quantity and a price.
Counted(i) ==
    LET t == active_positions[i].v
    IN  /\ t # None
        /\ t.trade_type = "buy"
        /\ t.status = "filled"
        /\ t.quantity # NoPrice
        /\ t.price # NoPrice

\* A counted entry whose quantity or price is not a number.
Broken(i) ==
    /\ Counted(i)
    /\ Malformed \in {active_positions[i].v.quantity, active_positions[i].v.price}

RECURSIVE SumCounted(_)
SumCounted(I) ==
    IF I = {} THEN 0
    ELSE LET i == CHOOSE j \in I : TRUE
         IN  active_positions[i].v.quantity * active_positions[i].v.price
             + SumCounted(I \ {i})

\* C30: _calculate_allocated_capital returns the sum of quantity x entry
\* price over the active positions that are FILLED buys, 0 for an empty map;
\* entries that are None or lack quantity or price are skipped; when a
\* record is malformed it returns 0 instead of raising.
C30_AllocatedIsSumOfFilledBuys ==
    EventIs("allocated") =>
        LET I == 1..Len(active_positions)
        IN  last_event.returned =
                IF \E i \in I : Broken(i) THEN 0
                ELSE SumCounted({i \in I : Counted(i)})

\* A valid FILLED buy of 10 at $5.00 next to a FILLED buy whose quantity is
\* not a number: the call returns 0.
C30_Witness ==
    /\ EventIs("allocated")
    /\ Len(active_positions) = 2
    /\ Counted(1) /\ ~Broken(1)
    /\ active_positions[1].v.quantity * active_positions[1].v.price = 5000
    /\ Broken(2)
    /\ last_event.returned = 0

(***************************************************************************)
(* RETRY BACKOFF                                                           *)
(***************************************************************************)

\* C31: retry sleeps before each re-attempt and only then: the function has
\* been called once more than there were sleeps when the call is about to
\* sleep or is over, and as often as there were sleeps when a re-attempt is
\* about to start; the k-th sleep lasts delay x backoff_factor^(k-1); no
\* sleep follows the final failed attempt, so there are at most max_retries.
C31_SleepBeforeEachRetryOnly ==
    /\ \A k \in 1..Len(sleeps) : sleeps[k] = delay * backoff_factor ^ (k - 1)
    /\ Len(sleeps) <= max_retries
    /\ (g_pc = "call" => Len(sleeps) = n_calls)
    /\ (g_pc = "sleep" => Len(sleeps) = n_calls - 1)
    /\ (g_pc = "idle" /\ result # "none" => Len(sleeps) = n_calls - 1)

\* Every attempt failed with a retryable error: four calls, sleeps of 1, 2
\* and 4 seconds between them and none after the last.
C31_Witness ==
    /\ g_pc = "idle"
    /\ result \in APIErrors
    /\ n_calls = max_retries + 1
    /\ sleeps = <<1, 2, 4>>

(***************************************************************************)
(* SUPPORT / RESISTANCE LEVELS: utils/technical_analysis.py                *)
(***************************************************************************)

\* identify_support_resistance_levels as analyze_symbol calls it:
\* window=10, min_touches=1, tolerance_percent=1.0.
level_window == 10

min_touches == 1

tolerance_percent == 1

\* identify_support_resistance_levels, "find local extrema": the candidates
\* (price, timestamp) in bar order; the timestamp of a bar is its index.
\* Fewer than 2 x window bars give none.
local_extrema(bars, level_type) ==
    LET px(i) == IF level_type = "support" THEN bars[i].low ELSE bars[i].high
        all   == [i \in 1..Len(bars) |-> [price |-> px(i), timestamp |-> i]]
        inner(c) == /\ Len(bars) >= 2 * level_window
                    /\ c.timestamp > level_window
                    /\ c.timestamp <= Len(bars) - level_window
        extreme(c) == \A j \in (c.timestamp - level_window)..(c.timestamp + level_window) :
                          IF level_type = "support" THEN px(j) >= c.price
                          ELSE px(j) <= c.price
    IN  SelectSeq(all, LAMBDA c : inner(c) /\ extreme(c))

RECURSIVE SumPrices(_)
SumPrices(group) ==
    IF group = << >> THEN 0 ELSE Head(group).price + SumPrices(Tail(group))

\* _create_level_from_group: the level's price is price_sum / touches. The
\* strength computed from the spread and the touches is within [0, 1], so
\* SupportResistanceLevel accepts every group of positive prices.
create_level_from_group(group, level_type) ==
    [level_type |-> level_type,
     price_sum |-> SumPrices(group),
     touches |-> Len(group),
     last_touch |-> SetMax({group[i].timestamp : i \in 1..Len(group)}),
     created_at |-> SetMin({group[i].timestamp : i \in 1..Len(group)})]

\* _group_price_levels: "abs(price - group_avg_price) <= tolerance" with
\* group_avg_price = sum / len and tolerance = group_avg_price x
\* tolerance_percent / 100, both sides multiplied by 100 x len.
within_tolerance(price, group) ==
    Abs(price * Len(group) - SumPrices(group)) * 100
        <= SumPrices(group) * tolerance_percent

\* _group_price_levels, the for-loop over the sorted candidates and the
\* processing of the last group.
RECURSIVE group_loop(_, _, _, _)
group_loop(rest, current_group, grouped_levels, level_type) ==
    LET closed == IF Len(current_group) >= min_touches
                  THEN Append(grouped_levels,
                              create_level_from_group(current_group, level_type))
                  ELSE grouped_levels
    IN  IF rest = << >> THEN closed
        ELSE IF within_tolerance(Head(rest).price, current_group)
        THEN group_loop(Tail(rest), Append(current_group, Head(rest)),
                        grouped_levels, level_type)
        ELSE group_loop(Tail(rest), <<Head(rest)>>, closed, level_type)

\* candidates.sort(key=lambda x: x[0])
sort_by_price(candidates) == SortSeq(candidates, LAMBDA a, b : a.price < b.price)

\* _group_price_levels comparing each candidate with the first price of the
\* group instead of the group's running average.
group_price_levelsFirstPrice(candidates, level_type) ==
    LET sorted == sort_by_price(candidates)
        RECURSIVE loop(_, _, _)
        loop(rest, cur, acc) ==
            IF rest = << >> THEN Append(acc, create_level_from_group(cur, level_type))
            ELSE IF within_tolerance(Head(rest).price, <<Head(cur)>>)
            THEN loop(Tail(rest), Append(cur, Head(rest)), acc)
            ELSE loop(Tail(rest), <<Head(rest)>>,
                      Append(acc, create_level_from_group(cur, level_type)))
    IN  IF candidates = << >> THEN << >>
        ELSE loop(Tail(sorted), <<Head(sorted)>>, << >>)

\* _group_price_levels
group_price_levels(candidates, level_type) ==
    IF candidates = << >> THEN << >>
    ELSE LET sorted == sort_by_price(candidates)
         IN  group_loop(Tail(sorted), <<Head(sorted)>>, << >>, level_type)

\* Bars of one symbol: lows on a base line (flat or rising) with up to three
\* dips, at bars 12, 23 and 34, and highs on a base line with an optional
\* peak at bar 25.
LevelBarCount == 45

LevelDips == {NoPrice, 10000, 10050, 10101, 10300}

LevelBars ==
    { [i \in 1..LevelBarCount |->
          [low  |-> IF i = 12 /\ d1 # NoPrice THEN d1
                    ELSE IF i = 23 /\ d2 # NoPrice THEN d2
                    ELSE IF i = 34 /\ d3 # NoPrice THEN d3
                    ELSE 10500 + slope * i,
           high |-> IF i = 25 /\ peak THEN 11200 ELSE 10700 + slope * i]] :
      d1 \in LevelDips, d2 \in LevelDips, d3 \in LevelDips,
      slope \in {0, 10}, peak \in BOOLEAN }

LevelInit ==
    /\ settings \in SignalConfigs
    /\ settings.trading_mode = "conservative"
    /\ params = update_trading_mode_parameters(settings.trading_mode,
                                               settings.custom_portfolio_value)
    /\ active_positions = << >>
    /\ pending_orders = << >>
    /\ position_high_prices = NoHigh
    /\ loop_pc = "idle"
    /\ todo = << >>
    /\ last_gen = None
    /\ analysis_count = 0
    /\ last_event \in { [kind |-> "bars", bars |-> b] : b \in LevelBars }
    /\ cycle_closed = {}
    /\ is_trading = TRUE
    /\ g_fn = "op"
    /\ GuardIdle

\* identify_support_resistance_levels on the bars fetched.
DetectLevels ==
    /\ loop_pc = "idle"
    /\ loop_pc' = "detected"
    /\ LET bars == last_event.bars
       IN  last_event' =
               [kind |-> "levels", bars |-> bars,
                support_candidates |-> local_extrema(bars, "support"),
                resistance_candidates |-> local_extrema(bars, "resistance"),
                support_levels |->
                    group_price_levels(local_extrema(bars, "support"), "support"),
                resistance_levels |->
                    group_price_levels(local_extrema(bars, "resistance"),
                                       "resistance")]
    /\ UNCHANGED <<settings, params, active_positions, pending_orders,
                   position_high_prices, todo, last_gen, analysis_count,
                   cycle_closed, is_trading, gvars>>

LevelSpec == LevelInit /\ [][DetectLevels]_vars

\* The candidates a list of levels was built from, cheapest first, and the
\* part of them that level k merged: the levels take consecutive runs.
RunStart(levels, k) ==
    LET RECURSIVE before(_)
        before(j) == IF j = 0 THEN 0 ELSE levels[j].touches + before(j - 1)
    IN  1 + before(k - 1)

Run(sorted, levels, k) ==
    SubSeq(sorted, RunStart(levels, k), RunStart(levels, k) + levels[k].touches - 1)

\* The levels merge the candidates as the claim says: every candidate is in
\* exactly one level, a level's price is the average of its run and its
\* touches the size; every member of a run after the first lies within the
\* tolerance of the average of the members before it, and the first
\* candidate after a run does not lie within the tolerance of the run's
\* average.
MergedByRunningAverage(candidates, levels, level_type) ==
    LET sorted == sort_by_price(candidates)
    IN  /\ RunStart(levels, Len(levels) + 1) = Len(sorted) + 1
        /\ \A k \in 1..Len(levels) :
              LET run == Run(sorted, levels, k)
              IN  /\ levels[k].level_type = level_type
                  /\ levels[k].touches >= 1
                  /\ levels[k].price_sum = SumPrices(run)
                  /\ \A i \in 2..Len(run) :
                        within_tolerance(run[i].price, SubSeq(run, 1, i - 1))
                  /\ k < Len(levels) =>
                        ~within_tolerance(sorted[RunStart(levels, k + 1)].price, run)

\* C32: level detection merges the candidates of one type that lie within
\* the tolerance of the cluster's running average into one level whose
\* price is the cluster average and whose touches is the cluster size,
\* however far apart in time they are; two support lows at the same price
\* that are the only support candidates give exactly one support level with
\* touches = 2 at that price.
C32_ClustersMergeWithinTolerance ==
    EventIs("levels") =>
        /\ MergedByRunningAverage(last_event.support_candidates,
                                  last_event.support_levels, "support")
        /\ MergedByRunningAverage(last_event.resistance_candidates,
                                  last_event.resistance_levels, "resistance")
        /\ LET c == last_event.support_candidates
           IN  (Len(c) = 2 /\ c[1].price = c[2].price)
                   => /\ Len(last_event.support_levels) = 1
                      /\ last_event.support_levels[1].touches = 2
                      /\ last_event.support_levels[1].price_sum = 2 * c[1].price

\* A double bottom at $100.00, at bars 12 and 34 (22 bars apart, more than
\* the window), on rising lows: one support level at $100.00 with two
\* touches.
C32_Witness ==
    /\ EventIs("levels")
    /\ last_event.support_candidates =
           <<[price |-> 10000, timestamp |-> 12], [price |-> 10000, timestamp |-> 34]>>
    /\ Len(last_event.support_levels) = 1
    /\ last_event.support_levels[1].touches = 2
    /\ last_event.support_levels[1].price_sum = 20000
    /\ last_event.support_levels[1].last_touch = 34

(***************************************************************************)
(* RSI: utils/technical_analysis.py                                        *)
(***************************************************************************)

\* calculate_rsi(data, window=14)
rsi_window == 14

\* calculate_rsi: for every index of the series the sums of the gains and of
\* the losses over the window (the rolling means are these sums divided by
\* the window) and the RSI in hundredths. delta.where(...) turns the
\* undefined first difference into 0; the rolling mean is undefined (NaN)
\* before the window is full; gain / loss is +inf for a zero loss and a
\* positive gain, which gives 100 - 100 / inf = 100, and NaN for 0 / 0.
calculate_rsi(data) ==
    LET delta(i) == IF i = 1 THEN 0 ELSE data[i] - data[i - 1]
        RECURSIVE sum(_, _, _)
        sum(i, n, up) ==
            IF n = 0 THEN 0
            ELSE (IF up THEN Max2(delta(i), 0) ELSE Max2(0 - delta(i), 0))
                 + sum(i - 1, n - 1, up)
        one(i) ==
            IF i < rsi_window
            THEN [nan |-> TRUE, value |-> 0, gain |-> 0, loss |-> 0]
            ELSE LET gain == sum(i, rsi_window, TRUE)
                     loss == sum(i, rsi_window, FALSE)
                 IN  [nan   |-> loss = 0 /\ gain = 0,
                      value |-> IF loss = 0 THEN (IF gain = 0 THEN 0 ELSE 10000)
                                ELSE 10000 - (10000 * loss) \div (loss + gain),
                      gain  |-> gain, loss |-> loss]
    IN  [i \in 1..Len(data) |-> one(i)]

\* Closing prices: ups rises of rise cents from the second bar on, then
\* downs falls of fall cents, then flat.
RsiBarCount == 17

RsiCloses ==
    { [i \in 1..RsiBarCount |->
          first + rise * Min2(Max2(i - 1, 0), ups)
                - fall * Min2(Max2(i - 1 - ups, 0), downs)] :
      first \in {5000, 10000}, ups \in 0..3, downs \in 0..3,
      rise \in {10, 25}, fall \in {10, 40} }

RsiInit ==
    /\ settings \in SignalConfigs
    /\ settings.trading_mode = "conservative"
    /\ params = update_trading_mode_parameters(settings.trading_mode,
                                               settings.custom_portfolio_value)
    /\ active_positions = << >>
    /\ pending_orders = << >>
    /\ position_high_prices = NoHigh
    /\ loop_pc = "idle"
    /\ todo = << >>
    /\ last_gen = None
    /\ analysis_count = 0
    /\ last_event \in { [kind |-> "closes", closes |-> c] : c \in RsiCloses }
    /\ cycle_closed = {}
    /\ is_trading = TRUE
    /\ g_fn = "op"
    /\ GuardIdle

\* df['rsi'] = calculate_rsi(df['close'])
RsiCall ==
    /\ loop_pc = "idle"
    /\ loop_pc' = "rsi"
    /\ last_event' = [kind |-> "rsi", closes |-> last_event.closes,
                      rsi |-> calculate_rsi(last_event.closes)]
    /\ UNCHANGED <<settings, params, active_positions, pending_orders,
                   position_high_prices, todo, last_gen, analysis_count,
                   cycle_closed, is_trading, gvars>>

RsiSpec == RsiInit /\ [][RsiCall]_vars

\* C33: every RSI value produced lies in [0, 100], and whenever the average
\* loss over a full window is 0 the RSI is exactly 100 and not undefined,
\* also when the average gain is 0 as well.
C33_RsiInRangeAndFullOnZeroLoss ==
    EventIs("rsi") =>
        \A i \in 1..Len(last_event.rsi) :
            LET r == last_event.rsi[i]
            IN  /\ ~r.nan => (r.value >= 0 /\ r.value <= 10000)
                /\ (i >= rsi_window /\ r.loss = 0)
                       => (~r.nan /\ r.value = 10000)

(***************************************************************************)
(* EXITS AND PENDING ORDERS                                                *)
(***************************************************************************)

\* C34: a sell order is submitted for a symbol only when the symbol has an
\* active position and no pending order, so that no second sell order is
\* submitted while an earlier one is pending and no tracked pending order
\* is overwritten.
C34_SellOnlyWithoutPendingOrder ==
    [][(last_event' # None /\ last_event'.kind = "exit" /\ last_event'.sold)
           => /\ Has(active_positions, last_event'.symbol)
              /\ ~Has(pending_orders, last_event'.symbol)]_vars

\* C35: in update_positions a failure while one symbol's pending order is
\* looked up does not prevent the other pending orders from being
\* reconciled nor the exit checks of the active positions from running in
\* the same cycle: the for-loop goes on with the next pending order.
C35_LookupFailureDoesNotAbortUpdate ==
    [][(/\ last_event' # None
        /\ last_event'.kind = "order"
        /\ last_event'.status = "raise")
           => /\ loop_pc' = "pending"
              /\ todo' = Tail(todo)]_vars

(***************************************************************************)
(* FAILED BUY ORDERS                                                       *)
(***************************************************************************)

CycleInit ==
    /\ settings \in SizerConfigs
    /\ params = update_trading_mode_parameters(settings.trading_mode,
                                               settings.custom_portfolio_value)
    /\ active_positions \in SizerPositions
    /\ pending_orders = << >>
    /\ position_high_prices = NoHigh
    /\ loop_pc = "process"
    /\ todo = selected_symbols
    /\ last_gen = None
    /\ analysis_count = 0
    /\ last_event = None
    /\ cycle_closed = {}
    /\ is_trading = TRUE
    /\ g_fn = "op"
    /\ GuardIdle

\* _trading_loop, one pass of the for-loop over the selected symbols in
\* which the snapshot scores a BUY for every symbol generate_signals does
\* not skip: execute_trade(symbol, "BUY", reason).
BuySymbol ==
    /\ loop_pc = "process"
    /\ todo # << >>
    /\ todo' = after_process_symbol(todo, FALSE)
    /\ LET sym == Head(todo)
       IN  IF Has(active_positions, sym) \/ Has(pending_orders, sym)
           THEN /\ last_event' = [kind |-> "skipped", symbol |-> sym]
                /\ UNCHANGED pending_orders
           ELSE \E account \in Accounts \cup {None},
                   answer \in {<<FALSE, FALSE>>, <<TRUE, FALSE>>, <<TRUE, TRUE>>} :
                /\ pending_orders' =
                       execute_buy_order(settings, active_positions, pending_orders,
                                         sym, account, answer[1], answer[2])
                /\ last_event' = [kind |-> "buy_symbol", symbol |-> sym,
                                  account |-> account, quote_ok |-> answer[1],
                                  order_ok |-> answer[2],
                                  held_before |-> Keys(active_positions)]
    /\ UNCHANGED <<settings, params, active_positions, position_high_prices, loop_pc,
                   last_gen, analysis_count, cycle_closed, is_trading, gvars>>

CycleSpec == CycleInit /\ [][BuySymbol]_vars

\* Placing the buy order failed: no account, no quote, the sizing refused
\* the order, or the broker gave no order.
BuyFailed ==
    /\ EventIs("buy_symbol")
    /\ \/ last_event.account = None
       \/ ~last_event.quote_ok
       \/ buy_notional(settings, last_event.account, active_positions) = NoPrice
       \/ (last_event.account.buying_power # 0 /\ ~last_event.order_ok)

\* C36: when placing a buy order fails, no pending entry and no active
\* position exist for the symbol afterwards, and the symbol is not visited
\* again in that cycle, so the order is not submitted again.
C36_FailedBuyLeavesNoTrace ==
    BuyFailed =>
        /\ ~Has(pending_orders, last_event.symbol)
        /\ ~Has(active_positions, last_event.symbol)
        /\ Keys(active_positions) = last_event.held_before
        /\ \A i \in 1..Len(todo) : todo[i] # last_event.symbol

\* The broker gave no order for AAPL although account, quote and sizing were
\* fine; MSFT is still to be visited in the same cycle.
C36_Witness ==
    /\ BuyFailed
    /\ last_event.symbol = "AAPL"
    /\ last_event.account # None
    /\ last_event.quote_ok
    /\ ~last_event.order_ok
    /\ buy_notional(settings, last_event.account, active_positions) # NoPrice
    /\ todo = <<"MSFT">>

(***************************************************************************)
(* HIGHEST PRICE SINCE ENTRY                                               *)
(***************************************************************************)

\* C37: the highest price a symbol's trailing stop uses never exceeds the
\* highest price observed since the entry of the current position: when a
\* position is opened the tracker holds nothing above the entry price (it
\* does not carry over from a closed position of the symbol), and while the
\* position is open the tracker never decreases.
C37_HighTrackedSinceEntryOnly ==
    [][\A sym \in Symbols :
          /\ (~Has(active_positions, sym) /\ Has(active_positions', sym))
                => position_high_prices'[sym] <= Get(active_positions', sym).price
          /\ (Has(active_positions, sym) /\ Has(active_positions', sym))
                => position_high_prices'[sym] >= position_high_prices[sym]]_vars

(***************************************************************************)
(* TRADING-LOOP THREADS                                                    *)
(* Start and stop of trading from the GUI thread.  Here loop_pc is the     *)
(* sequence of the positions of the threads started so far, the last one   *)
(* being self.trading_thread: "while" at the test of the while-loop,       *)
(* "body" inside update_positions or _process_symbol (possibly blocked in  *)
(* an in-flight call), "wait" in the 5-second interval, "ended".           *)
(***************************************************************************)

MaxThreads == 4

ThreadInit ==
    /\ settings \in {c \in SizerConfigs : /\ ~c.fixed_trade_amount_enabled
                                          /\ c.fixed_trade_amount = 1000
                                          /\ c.custom_portfolio_value = 10000}
    /\ params = update_trading_mode_parameters(settings.trading_mode,
                                               settings.custom_portfolio_value)
    /\ active_positions = << >>
    /\ pending_orders = << >>
    /\ position_high_prices = NoHigh
    /\ loop_pc = << >>
    /\ todo = << >>
    /\ last_gen = None
    /\ analysis_count = 0
    /\ last_event = None
    /\ cycle_closed = {}
    /\ is_trading = FALSE
    /\ g_fn = "op"
    /\ GuardIdle

\* _toggle_trading with is_trading false: _start_trading sets the flag and
\* starts a new thread on _trading_loop (the checks before it have passed).
start_trading ==
    /\ ~is_trading
    /\ Len(loop_pc) < MaxThreads
    /\ is_trading' = TRUE
    /\ loop_pc' = Append(loop_pc, "while")
    /\ UNCHANGED <<settings, params, active_positions, pending_orders,
                   position_high_prices, todo, last_gen, analysis_count,
                   last_event, cycle_closed, gvars>>

\* _toggle_trading with is_trading true: _stop_trading clears the flag and
\* joins self.trading_thread with a timeout.  A thread that is not inside a
\* call reaches its while-test within the timeout and ends; a thread inside
\* a call ends in time only if the call returns in time, otherwise the join
\* times out and the thread is left as it is.
stop_trading ==
    /\ is_trading
    /\ is_trading' = FALSE
    /\ LET t == Len(loop_pc)
       IN  \E in_time \in BOOLEAN :
              /\ (~in_time => loop_pc[t] = "body")
              /\ loop_pc' = IF in_time THEN [loop_pc EXCEPT ![t] = "ended"]
                            ELSE loop_pc
    /\ UNCHANGED <<settings, params, active_positions, pending_orders,
                   position_high_prices, todo, last_gen, analysis_count,
                   last_event, cycle_closed, gvars>>

\* _run_trading_loop of one thread: "while self.is_trading".
trading_loop_while ==
    /\ \E t \in DOMAIN loop_pc :
          /\ loop_pc[t] = "while"
          /\ loop_pc' = [loop_pc EXCEPT ![t] = IF loop_continues(is_trading)
                                               THEN "body" ELSE "ended"]
    /\ UNCHANGED <<settings, params, active_positions, pending_orders,
                   position_high_prices, todo, last_gen, analysis_count,
                   last_event, cycle_closed, is_trading, gvars>>

\* The body of one iteration returns: update_positions and the for-loop over
\* the selected symbols are done; "if self.is_trading: wait(5)".
trading_loop_body ==
    /\ \E t \in DOMAIN loop_pc :
          /\ loop_pc[t] = "body"
          /\ loop_pc' = [loop_pc EXCEPT ![t] = IF is_trading THEN "wait"
                                               ELSE "while"]
    /\ UNCHANGED <<settings, params, active_positions, pending_orders,
                   position_high_prices, todo, last_gen, analysis_count,
                   last_event, cycle_closed, is_trading, gvars>>

\* The 5-second interval of one thread is over.
trading_loop_wait ==
    /\ \E t \in DOMAIN loop_pc :
          /\ loop_pc[t] = "wait"
          /\ loop_pc' = [loop_pc EXCEPT ![t] = "while"]
    /\ UNCHANGED <<settings, params, active_positions, pending_orders,
                   position_high_prices, todo, last_gen, analysis_count,
                   last_event, cycle_closed, is_trading, gvars>>

ThreadNext ==
    \/ start_trading
    \/ stop_trading
    \/ trading_loop_while
    \/ trading_loop_body
    \/ trading_loop_wait

ThreadSpec == ThreadInit /\ [][ThreadNext]_vars

\* C38: at most one trading-loop thread is inside the body of an iteration,
\* where the pending-order map, the active-position map and the highest-
\* price tracker are written, also after trading was stopped and started
\* again while the previous loop was blocked in a call.
C38_OneLoopThreadMutates ==
    Cardinality({t \in DOMAIN loop_pc : loop_pc[t] = "body"}) <= 1

(***************************************************************************)
(* ERRORHANDLER CIRCUIT OF A CLIENT OPERATION                              *)
(***************************************************************************)

\* C39: once circuit_breaker_threshold errors of a client operation have
\* been recorded by its error handling, and no more than
\* circuit_breaker_timeout seconds have passed since the last of them, the
\* is_circuit_breaker_open check of the same operation answers true.
C39_RecordedErrorsOpenTheCheck ==
    g_fn # "op" =>
        LET recorded == RecordKey(g_fn)
        IN  (/\ eh.error_counts[recorded] >= circuit_breaker_threshold
             /\ eh.last_error_times[recorded] # NoTime
             /\ eh.last_error_times[recorded] <= circuit_breaker_timeout)
                => is_circuit_breaker_open(eh, CheckKey(g_fn)).open

(***************************************************************************)
(* DYNAMIC PARAMETER REFRESH                                               *)
(***************************************************************************)

\* C40: with dynamic parameters enabled, the analyze_symbol call that is the
\* parameter_refresh_frequency-th since the last refresh runs
\* refresh_dynamic_parameters to its end and goes on to the analysis: the
\* call does not raise.
C40_RefreshCompletesWithoutRaising ==
    [][(/\ last_event' # None
        /\ last_event'.kind = "analyze"
        /\ settings.enable_dynamic_parameters
        /\ analysis_count # analysis_count'
        /\ analysis_count' % parameter_refresh_frequency = 0)
          => ~last_event'.raised]_vars

====
